---- MODULE Spec2Model ----
(***************************************************************************)
(* Model of the documentation search of gemini-cli-assistant-ext:          *)
(* docs/search.ts (tokenize, countRelevantTokens, calculateScore,          *)
(* extractExcerpt, findMatchedHeadings, searchDocuments), docs/index.ts    *)
(* (loadDocIndex, getCategories) and tools/docSearch.ts (searchGeminiDocs).*)
(*                                                                         *)
(* A JavaScript string is a sequence of one-character strings.  A number   *)
(* that the code holds in a double is a fixed-point integer counting       *)
(* units of 1/Scale; Math.log is a table of logarithms in those units.     *)
(***************************************************************************)
EXTENDS Integers, Sequences, FiniteSets, TLC

VARIABLES
  documents,    \* the documents of docs/index.json, the collection searched
  indexFile,    \* "present" or "missing": whether docs/index.json can be read
  cachedIndex,  \* index.ts: cachedIndex, None or Some(the loaded documents)
  lastCall,     \* the last call: "none", "searchDocuments" or "searchGeminiDocs"
  options,      \* the options searchDocuments got in the last call, if it ran
  results,      \* the SearchResult[] it returned
  params,       \* the params of the last call, if it was searchGeminiDocs
  response,     \* the CallToolResult the last tool call returned
  thrown,       \* the error that searchDocuments raised in the last call, if any
  indexWritten, \* updateDocsIndex has written docs/index.json in this process
  sourceFiles,  \* docs/llms.txt and docs/gemini-cli-readme.md: for each, None
                \* while this process has not written it, else Some of its content
  settings,     \* the settings file of each scope: user and project
  writable,     \* whether the settings file of each scope can be written
  backups,      \* the number of backup files written
  lastEdit,     \* the last call, if it was configure_gemini_cli: params and result
  lastQuery     \* the last call, if it was query_gemini_config: params and response

docVars == <<documents, indexFile, cachedIndex, lastCall, options, results, params,
             response, thrown, indexWritten, sourceFiles>>
configVars == <<settings, writable, backups, lastEdit, lastQuery>>
vars == <<docVars, configVars>>

\* a value that may be absent (null, or undefined for an optional number) is
\* None or Some(value)
None == <<>>
Some(v) == <<v>>
Get(o) == o[1]

\* the undefined of an optional string
undefined == "undefined"

(***************************************************************************)
(* Strings                                                                 *)
(***************************************************************************)
LowerCaseLetters ==
  {"a", "b", "c", "d", "e", "f", "g", "h", "i", "j", "k", "l", "m",
   "n", "o", "p", "q", "r", "s", "t", "u", "v", "w", "x", "y", "z"}
UpperCaseLetters == {"V", "M", "T"}
Digits == {"1", "2"}
Whitespace == {" ", "\n"}

\* String.prototype.toLowerCase, one character
LowerCaseOf == [c \in UpperCaseLetters |->
                  CASE c = "V" -> "v" [] c = "M" -> "m" [] c = "T" -> "t"]
toLowerCase(c) == IF c \in UpperCaseLetters THEN LowerCaseOf[c] ELSE c

\* the class \w of a regular expression
WordChars == LowerCaseLetters \cup UpperCaseLetters \cup Digits \cup {"_"}

\* the class [\w\s-]
KeptChars == WordChars \cup Whitespace \cup {"-"}

\* .replace(/[^\w\s-]/g, ' '), one character
replacePunctuation(c) == IF c \in KeptChars THEN c ELSE " "

\* a list the code builds with map or a loop, evaluated once
List(f) == f \o <<>>

\* the pieces of s between single whitespace characters
splitAtEach(s) ==
  LET n == Len(s)
      at == SelectSeq(List([i \in 1..n |-> i]), LAMBDA i : s[i] \in Whitespace)
      m == Len(at)
      from(k) == IF k = 1 THEN 1 ELSE at[k - 1] + 1
      upto(k) == IF k = m + 1 THEN n ELSE at[k] - 1
  IN  List([k \in 1..(m + 1) |-> SubSeq(s, from(k), upto(k))])

\* String.prototype.split(/\s+/): a run of whitespace is one separator, so
\* only the first and the last piece can be the empty string
split(s) ==
  LET p == splitAtEach(s)
      n == Len(p)
  IN  IF n <= 2 THEN p
      ELSE <<p[1]>> \o SelectSeq(SubSeq(p, 2, n - 1), LAMBDA w : w # <<>>) \o <<p[n]>>

\* Array.prototype.join(sep) over strs[lo..hi]
RECURSIVE JoinAt(_, _, _, _)
JoinAt(strs, sep, lo, hi) ==
  IF lo > hi THEN <<>>
  ELSE IF lo = hi THEN strs[lo]
  ELSE LET mid == (lo + hi) \div 2
       IN  JoinAt(strs, sep, lo, mid) \o sep \o JoinAt(strs, sep, mid + 1, hi)

join(strs, sep) == JoinAt(strs, sep, 1, Len(strs))

Max(a, b) == IF a >= b THEN a ELSE b
Min(a, b) == IF a <= b THEN a ELSE b

\* Array.prototype.slice(start, end) for start >= 0: end is clamped to the
\* length, and a negative end counts from the end of the array
slice(arr, start, end) ==
  LET to == IF end < 0 THEN Max(Len(arr) + end, 0) ELSE Min(end, Len(arr))
  IN  SubSeq(arr, start + 1, to)

\* String.prototype.substring(0, n)
substring(s, n) == IF Len(s) <= n THEN s ELSE SubSeq(s, 1, n)

(***************************************************************************)
(* Numbers                                                                 *)
(***************************************************************************)
\* one unit of a fixed-point number is 1/Scale
Scale == 100 * 100

\* the natural logarithm of 1..16 in units of 1/Scale, additive over products
Ln == <<0, 6931, 10986, 13862, 16094, 17917, 19459, 20793,
        21972, 23025, 23979, 24848, 25649, 26390, 27080, 27724>>

\* Math.log(num / den)
MathLog(num, den) == Ln[num] - Ln[den]

(***************************************************************************)
(* docs/search.ts                                                          *)
(***************************************************************************)
\* mutant: the words of one and two characters kept as tokens
tokenizeKeepingShort(text) ==
  LET cleaned == List([i \in 1..Len(text) |-> replacePunctuation(toLowerCase(text[i]))])
  IN  SelectSeq(split(cleaned), LAMBDA token : Len(token) > 0)

tokenize(text) ==
  LET cleaned == List([i \in 1..Len(text) |-> replacePunctuation(toLowerCase(text[i]))])
  IN  SelectSeq(split(cleaned), LAMBDA token : Len(token) > 2)

\* Record<string, number>: a function from the counted tokens to their counts
countRelevantTokens(tokens, relevantTokens) ==
  LET counted == {tokens[i] : i \in {j \in 1..Len(tokens) :
                     ~(relevantTokens # {} /\ tokens[j] \notin relevantTokens)}}
  IN  [t \in counted |-> Cardinality({i \in 1..Len(tokens) : tokens[i] = t})]

\* Record lookup with ?? 0
Lookup(rec, key) == IF key \in DOMAIN rec THEN rec[key] ELSE 0

\* mutant: the smoothing added to the number of documents too
idfSmoothedBoth(totalDocs, docFrequency) == MathLog(totalDocs + 1, docFrequency + 1)

\* mutant: the document frequency smoothed by two
idfSmoothedByTwo(totalDocs, docFrequency) == MathLog(totalDocs, docFrequency + 2)

\* mutant: the magnitude of the logarithm
idfMagnitude(totalDocs, docFrequency) ==
  Max(MathLog(totalDocs, docFrequency + 1), MathLog(docFrequency + 1, totalDocs))

\* idf = Math.log(totalDocs / ((docFrequencies[queryToken] ?? 0) + 1))
inverseDocumentFrequency(totalDocs, docFrequency) == MathLog(totalDocs, docFrequency + 1)

RECURSIVE ScoreFrom(_, _, _, _, _, _)
ScoreFrom(i, queryTokens, tokenCounts, totalTokens, docFrequencies, totalDocs) ==
  IF i > Len(queryTokens) THEN 0
  ELSE LET queryToken == queryTokens[i]
           tf == (Lookup(tokenCounts, queryToken) * Scale) \div totalTokens
           idf == inverseDocumentFrequency(totalDocs, Lookup(docFrequencies, queryToken))
           rest == ScoreFrom(i + 1, queryTokens, tokenCounts, totalTokens,
                             docFrequencies, totalDocs)
       IN  IF tf = 0 THEN rest ELSE ((tf * idf) \div Scale) + rest

calculateScore(queryTokens, tokenCounts, totalTokens, docFrequencies, totalDocs) ==
  IF totalTokens = 0 \/ totalDocs = 0 THEN 0
  ELSE ScoreFrom(1, queryTokens, tokenCounts, totalTokens, docFrequencies, totalDocs)

ellipsis == <<".", ".", ".">>
contextWords == 200
maxLength == 4000

\* the index of the first token that is a query token, -1 if there is none
\* (0-based, as in the code)
matchIndexOf(tokens, queryTokens) ==
  LET qs == {queryTokens[i] : i \in 1..Len(queryTokens)}
      hits == {i \in 1..Len(tokens) : tokens[i] \in qs}
  IN  IF hits = {} THEN -1
      ELSE (CHOOSE i \in hits : \A j \in hits : i <= j) - 1

extractExcerpt(content, queryTokens, precomputedTokens) ==
  LET tokens == precomputedTokens
      words == split(content)
      matchIndex == matchIndexOf(tokens, queryTokens)
  IN  IF matchIndex = -1
      THEN LET excerpt == join(slice(words, 0, contextWords), <<" ">>)
           IN  IF Len(excerpt) < Len(content) THEN excerpt \o ellipsis ELSE excerpt
      ELSE LET start == Max(0, matchIndex - contextWords)
               end == Min(Len(words), matchIndex + contextWords)
               e1 == join(slice(words, start, end), <<" ">>)
               e2 == IF start > 0 THEN ellipsis \o e1 ELSE e1
               e3 == IF end < Len(words) THEN e2 \o ellipsis ELSE e2
           IN  IF Len(e3) > maxLength THEN substring(e3, maxLength) \o ellipsis ELSE e3

\* mutant: a heading matches when it holds every query token
findMatchedHeadingsOfAllTokens(headings, queryTokens) ==
  SelectSeq(headings, LAMBDA heading :
    LET headingTokens == tokenize(heading)
    IN  \A i \in 1..Len(queryTokens) :
          \E j \in 1..Len(headingTokens) : headingTokens[j] = queryTokens[i])

findMatchedHeadings(headings, queryTokens) ==
  SelectSeq(headings, LAMBDA heading :
    LET headingTokens == tokenize(heading)
    IN  \E i \in 1..Len(queryTokens) :
          \E j \in 1..Len(headingTokens) : headingTokens[j] = queryTokens[i])


\* Array.prototype.sort(compare): stable, as ECMAScript requires; an element
\* goes after every earlier element that compare does not order after it
RECURSIVE sortFrom(_, _, _)
sortFrom(arr, i, sorted) ==
  IF i > Len(arr) THEN sorted
  ELSE LET r == arr[i]
           k == Cardinality({j \in 1..Len(sorted) :
                  r.relevanceScore - sorted[j].relevanceScore <= 0})
       IN  sortFrom(arr, i + 1,
                    SubSeq(sorted, 1, k) \o <<r>> \o SubSeq(sorted, k + 1, Len(sorted)))

\* mutant: the results left in the order of the documents
notSorted(arr) == arr

\* mutant: a sort that puts an element before the earlier elements equal to it
RECURSIVE sortTiesReversedFrom(_, _, _)
sortTiesReversedFrom(arr, i, sorted) ==
  IF i > Len(arr) THEN sorted
  ELSE LET r == arr[i]
           k == Cardinality({j \in 1..Len(sorted) :
                  r.relevanceScore - sorted[j].relevanceScore < 0})
       IN  sortTiesReversedFrom(arr, i + 1,
             SubSeq(sorted, 1, k) \o <<r>> \o SubSeq(sorted, k + 1, Len(sorted)))

sortTiesReversed(arr) == sortTiesReversedFrom(arr, 1, <<>>)

\* results.sort((a, b) => b.relevanceScore - a.relevanceScore)
sortByRelevance(arr) == sortFrom(arr, 1, <<>>)

DefaultMaxResults == 10
DefaultMinScore == Scale \div 100

\* a string is truthy unless it is undefined or empty
Truthy(v) == v # undefined /\ v # ""

safeLength(tokens) == IF Len(tokens) = 0 THEN 1 ELSE Len(tokens)

\* mutant: the category ignored
filterNothing(docs, category) == docs

\* if (category) filteredDocs = documents.filter(doc => doc.category === category)
filterByCategory(docs, category) ==
  IF Truthy(category) THEN SelectSeq(docs, LAMBDA doc : doc.category = category)
  ELSE docs

\* docFrequencies: for each counted body token, the number of documents of
\* the filtered set whose body counts hold it
docFrequenciesOf(contentCountsList) ==
  LET n == Len(contentCountsList)
      keys == UNION {DOMAIN contentCountsList[i] : i \in 1..n}
  IN  [t \in keys |-> Cardinality({i \in 1..n : t \in DOMAIN contentCountsList[i]})]

titleWeight == 3
headingWeight == 2

\* mutant: the title boost left out of the score
noTitleBoost(titleScore) == titleScore - titleScore

\* titleBoost = calculateScore(...) * 3
titleBoostOf(titleScore) == titleScore * titleWeight

\* mutant: the headings weighted as the title
headingBoostAsTitle(headingScore) == headingScore * titleWeight

\* headingBoost = calculateScore(...) * 2
headingBoostOf(headingScore) == headingScore * headingWeight

\* the three calculateScore results of each document of filteredDocs, in
\* order: for the body, the title and the joined headings
fieldScoresOf(filteredDocs, contentTokensList, queryTokens) ==
  LET queryTokenSet == {queryTokens[i] : i \in 1..Len(queryTokens)}
      totalDocs == Len(filteredDocs)
      titleTokensList == List([i \in 1..totalDocs |-> tokenize(filteredDocs[i].title)])
      headingTokensList ==
        List([i \in 1..totalDocs |-> tokenize(join(filteredDocs[i].headings, <<" ">>))])
      contentCountsList ==
        List([i \in 1..totalDocs |-> countRelevantTokens(contentTokensList[i], queryTokenSet)])
      titleCountsList ==
        List([i \in 1..totalDocs |-> countRelevantTokens(titleTokensList[i], queryTokenSet)])
      headingCountsList ==
        List([i \in 1..totalDocs |-> countRelevantTokens(headingTokensList[i], queryTokenSet)])
      docFrequencies == docFrequenciesOf(contentCountsList)
      baseScore(index) ==
        calculateScore(queryTokens, contentCountsList[index],
                       safeLength(contentTokensList[index]), docFrequencies, totalDocs)
      titleScore(index) ==
        calculateScore(queryTokens, titleCountsList[index],
                       safeLength(titleTokensList[index]), docFrequencies, totalDocs)
      headingScore(index) ==
        calculateScore(queryTokens, headingCountsList[index],
                       safeLength(headingTokensList[index]), docFrequencies, totalDocs)
  IN  List([index \in 1..totalDocs |->
              [baseScore |-> baseScore(index), titleScore |-> titleScore(index),
               headingScore |-> headingScore(index)]])

\* the scores of the documents of filteredDocs, in order:
\* baseScore + titleBoost + headingBoost of each
scoresOf(filteredDocs, contentTokensList, queryTokens) ==
  LET fieldScores == fieldScoresOf(filteredDocs, contentTokensList, queryTokens)
      scoreOf(fields) ==
        fields.baseScore + titleBoostOf(fields.titleScore)
          + headingBoostOf(fields.headingScore)
  IN  List([index \in 1..Len(filteredDocs) |-> scoreOf(fieldScores[index])])

\* contentTokensList = filteredDocs.map((doc) => tokenize(doc.content))
contentTokensOf(filteredDocs) ==
  List([i \in 1..Len(filteredDocs) |-> tokenize(filteredDocs[i].content)])

\* the SearchResult of a kept document
resultOf(doc, score, queryTokens, contentTokens) ==
  [document |-> doc,
   excerpt |-> extractExcerpt(doc.content, queryTokens, contentTokens),
   relevanceScore |-> score,
   matchedHeadings |-> findMatchedHeadings(doc.headings, queryTokens)]

\* const { query, category, maxResults = 10, minScore = 0.01 } = options
\* mutant: the default bound taken for the bound of the tool's schema
maxResultsOfSchemaMax(opts) ==
  IF opts.maxResults = None THEN 2 * DefaultMaxResults ELSE Get(opts.maxResults)

minScoreOf(opts) == IF opts.minScore = None THEN DefaultMinScore ELSE Get(opts.minScore)
maxResultsOf(opts) ==
  IF opts.maxResults = None THEN DefaultMaxResults ELSE Get(opts.maxResults)

\* mutant: the default threshold whatever the options say
isIncludedByDefault(score, minScore) == score >= DefaultMinScore

\* if (score >= minScore)
isIncluded(score, minScore) == score >= minScore

\* mutant: one result too many
limitOneMore(sorted, maxResults) == slice(sorted, 0, maxResults + 1)

\* results.slice(0, maxResults)
limitResults(sorted, maxResults) == slice(sorted, 0, maxResults)

\* a document that JSON.parse gave without one of the fields that
\* searchDocuments reads with a method call: tokenize(doc.content) and
\* tokenize(doc.title) call toLowerCase on it, doc.headings.join is a call
isMalformed(doc) == {"content", "title", "headings"} \ DOMAIN doc # {}

\* searchDocuments raises a TypeError: it got past the two early returns and
\* reads a document of the filtered set that lacks a field
searchDocumentsThrows(docs, opts) ==
  /\ Len(tokenize(opts.query)) # 0
  /\ Len(filterByCategory(docs, opts.category)) # 0
  /\ \E i \in 1..Len(filterByCategory(docs, opts.category)) :
       isMalformed(filterByCategory(docs, opts.category)[i])

\* mutant: the scores computed over the whole collection, and the category
\* filter applied to the scored documents
searchDocumentsCountingAll(docs, opts) ==
  LET queryTokens == tokenize(opts.query)
      contentTokensList == contentTokensOf(docs)
      keptOf(scores) ==
        SelectSeq([i \in 1..Len(docs) |-> i],
                  LAMBDA i : /\ Truthy(opts.category) => docs[i].category = opts.category
                             /\ isIncluded(scores[i], minScoreOf(opts)))
      resultsAt(indexes, scores) ==
        List([k \in 1..Len(indexes) |->
                resultOf(docs[indexes[k]], scores[indexes[k]], queryTokens,
                         contentTokensList[indexes[k]])])
      resultsOf(scores) == resultsAt(keptOf(scores), scores)
      found == resultsOf(scoresOf(docs, contentTokensList, queryTokens))
  IN  IF Len(queryTokens) = 0 THEN <<>>
      ELSE IF Len(filterByCategory(docs, opts.category)) = 0 THEN <<>>
      ELSE limitResults(sortByRelevance(found), maxResultsOf(opts))

searchDocuments(docs, opts) ==
  LET queryTokens == tokenize(opts.query)
      filteredDocs == filterByCategory(docs, opts.category)
      contentTokensList == contentTokensOf(filteredDocs)
      \* the indexes of the documents with score >= minScore, in order
      keptOf(scores) ==
        SelectSeq([i \in 1..Len(filteredDocs) |-> i],
                  LAMBDA i : isIncluded(scores[i], minScoreOf(opts)))
      \* results.push of each of them
      resultsAt(indexes, scores) ==
        List([k \in 1..Len(indexes) |->
                resultOf(filteredDocs[indexes[k]], scores[indexes[k]], queryTokens,
                         contentTokensList[indexes[k]])])
      resultsOf(scores) == resultsAt(keptOf(scores), scores)
      found == resultsOf(scoresOf(filteredDocs, contentTokensList, queryTokens))
  IN  IF Len(queryTokens) = 0 THEN <<>>
      ELSE IF Len(filteredDocs) = 0 THEN <<>>
      ELSE limitResults(sortByRelevance(found), maxResultsOf(opts))


(***************************************************************************)
(* docs/index.ts                                                           *)
(***************************************************************************)
\* loadDocIndex returns the cached index, or reads docs/index.json; it throws
\* when the file cannot be read
loadDocIndexThrows == cachedIndex = None /\ indexFile = "missing"
loadDocIndex == IF cachedIndex # None THEN Get(cachedIndex) ELSE documents

\* getCategories: the categories of the index (the code sorts them; only
\* membership is used)
getCategories(index) == {index[i].category : i \in 1..Len(index)}

(***************************************************************************)
(* tools/docSearch.ts                                                      *)
(***************************************************************************)
ToolDefaultMaxResults == 5

\* Math.round(x * 100) / 100
roundToCents(x) == ((x * 100 + Scale \div 2) \div Scale) * (Scale \div 100)

\* params.maxResults || 5
maxResultsOrDefault(maxResults) ==
  IF maxResults = None \/ maxResults = Some(0) THEN ToolDefaultMaxResults
  ELSE Get(maxResults)

formatResult(result) ==
  [title |-> result.document.title,
   excerpt |-> result.excerpt,
   liveUrl |-> result.document.liveUrl,
   category |-> result.document.category,
   relevanceScore |-> roundToCents(result.relevanceScore),
   matchedHeadings |-> result.matchedHeadings]

searchGeminiDocs(p) ==
  LET index == loadDocIndex
      allCategories == getCategories(index)
      opts == [query |-> p.query, category |-> p.category,
               maxResults |-> Some(maxResultsOrDefault(p.maxResults)), minScore |-> None]
      searchResults == searchDocuments(index, opts)
      respond(found) ==
        /\ results' = found
        /\ response' = Some([isError |-> FALSE,
                             results |-> [i \in 1..Len(found) |-> formatResult(found[i])],
                             totalResults |-> Len(found)])
  IN  /\ lastCall' = "searchGeminiDocs"
      /\ params' = Some(p)
      /\ thrown' = IF ~loadDocIndexThrows
                      /\ ~(Truthy(p.category) /\ p.category \notin allCategories)
                      /\ searchDocumentsThrows(index, opts)
                   THEN Some("TypeError") ELSE None
      /\ UNCHANGED <<documents, indexFile, indexWritten, sourceFiles>>
      /\ UNCHANGED configVars
      /\ IF loadDocIndexThrows
         THEN /\ response' = Some([isError |-> TRUE,
                                    error |-> "Documentation index not found"])
              /\ options' = None
              /\ results' = <<>>
              /\ UNCHANGED cachedIndex
         ELSE /\ cachedIndex' = Some(index)
              /\ IF Truthy(p.category) /\ p.category \notin allCategories
                 THEN /\ response' = Some([isError |-> TRUE, error |-> "Invalid category"])
                      /\ options' = None
                      /\ results' = <<>>
                 ELSE IF searchDocumentsThrows(index, opts)
                 THEN /\ options' = Some(opts)
                      /\ results' = <<>>
                      /\ response' = Some([isError |-> TRUE, error |-> "TypeError"])
                 ELSE /\ options' = Some(opts)
                      /\ respond(searchResults)

(***************************************************************************)
(* docs/updater.ts and the update_gemini_docs tool                         *)
(***************************************************************************)
\* a download is [llms, readme]: each None when downloadText rejects, else
\* Some of what was downloaded: the sections of llms.txt, the README document
\* updateDocsIndex throws when a download fails, and when parseSections finds
\* no section in llms.txt
updateDocsIndexThrows(download) ==
  \/ download.llms = None
  \/ download.readme = None
  \/ Len(Get(download.llms)) = 0

\* the documents of the index it writes: documents.unshift(readmeDoc)
buildDocuments(download) ==
  LET built == <<Get(download.readme)>> \o Get(download.llms)
  IN  [i \in 1..Len(built) |->
         [id |-> i, title |-> built[i].title, category |-> built[i].category,
          liveUrl |-> i, content |-> built[i].content, headings |-> built[i].headings]]

updateErrorOf(download) ==
  IF download.llms = None \/ download.readme = None THEN "Failed to download"
  ELSE "No documentation sections were found in llms.txt"

\* updateDocsIndex has both downloads before it writes a file
downloadFails(download) == download.llms = None \/ download.readme = None

\* updateGeminiDocs: llms.txt and the README are written once both are
\* downloaded, the index file once the sections are parsed; the cached index
\* is not touched
updateGeminiDocs(download) ==
  /\ lastCall' = "updateGeminiDocs"
  /\ options' = None
  /\ results' = <<>>
  /\ params' = None
  /\ thrown' = None
  /\ UNCHANGED cachedIndex
  /\ UNCHANGED configVars
  /\ IF downloadFails(download) THEN UNCHANGED sourceFiles
     ELSE sourceFiles' = [llms |-> download.llms, readme |-> download.readme]
  /\ IF updateDocsIndexThrows(download)
     THEN /\ response' = Some([isError |-> TRUE, error |-> updateErrorOf(download)])
          /\ UNCHANGED <<documents, indexFile, indexWritten>>
     ELSE /\ documents' = buildDocuments(download)
          /\ indexFile' = "present"
          /\ indexWritten' = TRUE
          /\ response' = Some([isError |-> FALSE,
                                documentCount |-> Len(buildDocuments(download))])

(***************************************************************************)
(* config/parser.ts                                                        *)
(***************************************************************************)
\* String.prototype.includes, startsWith and endsWith
includes(str, sub) ==
  \E i \in 1..(Len(str) - Len(sub) + 1) : SubSeq(str, i, i + Len(sub) - 1) = sub
startsWith(str, prefix) ==
  Len(str) >= Len(prefix) /\ SubSeq(str, 1, Len(prefix)) = prefix
endsWith(str, suffix) ==
  Len(str) >= Len(suffix) /\ SubSeq(str, Len(str) - Len(suffix) + 1, Len(str)) = suffix

\* String.prototype.toLowerCase
lowerCase(str) == List([i \in 1..Len(str) |-> toLowerCase(str[i])])

\* String.prototype.trim
trim(str) ==
  LET inked == {i \in 1..Len(str) : str[i] \notin Whitespace}
  IN  IF inked = {} THEN <<>>
      ELSE SubSeq(str, CHOOSE i \in inked : \A j \in inked : i <= j,
                       CHOOSE i \in inked : \A j \in inked : i >= j)

\* the pieces of str between the occurrences of the character sep:
\* String.prototype.split(sep)
splitOn(str, sep) ==
  LET n == Len(str)
      at == SelectSeq(List([i \in 1..n |-> i]), LAMBDA i : str[i] = sep)
      m == Len(at)
      from(k) == IF k = 1 THEN 1 ELSE at[k - 1] + 1
      upto(k) == IF k = m + 1 THEN n ELSE at[k] - 1
  IN  List([k \in 1..(m + 1) |-> SubSeq(str, from(k), upto(k))])

\* the words of str: its pieces between runs of whitespace
wordsOf(str) == SelectSeq(split(str), LAMBDA w : w # <<>>)

\* the characters of str that match pattern removed: .replace(/[...]/g, '')
removeChars(str, pattern) == SelectSeq(str, LAMBDA c : c \notin pattern)

Articles == {<<"t", "h", "e">>, <<"a">>, <<"a", "n">>}

\* the maximal run of word characters that holds position i of str
wordAround(str, i) ==
  LET first == CHOOSE j \in 1..i :
                 /\ \A k \in j..i : str[k] \in WordChars
                 /\ j = 1 \/ str[j - 1] \notin WordChars
      last == CHOOSE j \in i..Len(str) :
                /\ \A k \in i..j : str[k] \in WordChars
                /\ j = Len(str) \/ str[j + 1] \notin WordChars
  IN  SubSeq(str, first, last)

\* .replace(/\b(the|a|an)\b/g, ''): every run of word characters that is an
\* article is removed
removeArticles(str) ==
  LET kept == SelectSeq(List([i \in 1..Len(str) |-> i]),
                LAMBDA i : ~(str[i] \in WordChars /\ wordAround(str, i) \in Articles))
  IN  List([k \in 1..Len(kept) |-> str[kept[k]]])

\* cleanedLower: lower case, no article, single spaces, trimmed
cleanedLowerOf(instruction) ==
  join(wordsOf(removeArticles(trim(lowerCase(instruction)))), <<" ">>)

\* JSON.stringify of a string that holds no quote and no backslash
quoted(str) == <<"\"">> \o str \o <<"\"">>

\* a value of the configuration is the function from the paths of its
\* leaves, relative to it, to their JSON texts: a boolean, a number or a
\* string has the one path <<>>; undefined has none
primitive(jsonText) == <<>> :> jsonText
undefinedValue == <<>>
isObject(value) == value # undefinedValue /\ <<>> \notin DOMAIN value

settingsMap ==
  <<"v", "i", "m", "m", "o", "d", "e">> :> <<"g", "e", "n", "e", "r", "a", "l", ".", "v", "i", "m", "M", "o", "d", "e">>
  @@ <<"v", "i", "m">> :> <<"g", "e", "n", "e", "r", "a", "l", ".", "v", "i", "m", "M", "o", "d", "e">>
  @@ <<"a", "u", "t", "o", "u", "p", "d", "a", "t", "e">> :> <<"g", "e", "n", "e", "r", "a", "l", ".", "d", "i", "s", "a", "b", "l", "e", "A", "u", "t", "o", "U", "p", "d", "a", "t", "e">>
  @@ <<"u", "p", "d", "a", "t", "e", "s">> :> <<"g", "e", "n", "e", "r", "a", "l", ".", "d", "i", "s", "a", "b", "l", "e", "A", "u", "t", "o", "U", "p", "d", "a", "t", "e">>
  @@ <<"p", "r", "o", "m", "p", "t", "c", "o", "m", "p", "l", "e", "t", "i", "o", "n">> :> <<"g", "e", "n", "e", "r", "a", "l", ".", "e", "n", "a", "b", "l", "e", "P", "r", "o", "m", "p", "t", "C", "o", "m", "p", "l", "e", "t", "i", "o", "n">>
  @@ <<"c", "h", "e", "c", "k", "p", "o", "i", "n", "t", "i", "n", "g">> :> <<"g", "e", "n", "e", "r", "a", "l", ".", "c", "h", "e", "c", "k", "p", "o", "i", "n", "t", "i", "n", "g", ".", "e", "n", "a", "b", "l", "e", "d">>
  @@ <<"c", "h", "e", "c", "k", "p", "o", "i", "n", "t">> :> <<"g", "e", "n", "e", "r", "a", "l", ".", "c", "h", "e", "c", "k", "p", "o", "i", "n", "t", "i", "n", "g", ".", "e", "n", "a", "b", "l", "e", "d">>
  @@ <<"t", "h", "e", "m", "e">> :> <<"u", "i", ".", "t", "h", "e", "m", "e">>
  @@ <<"b", "a", "n", "n", "e", "r">> :> <<"u", "i", ".", "h", "i", "d", "e", "B", "a", "n", "n", "e", "r">>
  @@ <<"l", "i", "n", "e", "n", "u", "m", "b", "e", "r", "s">> :> <<"u", "i", ".", "s", "h", "o", "w", "L", "i", "n", "e", "N", "u", "m", "b", "e", "r", "s">>
  @@ <<"c", "i", "t", "a", "t", "i", "o", "n", "s">> :> <<"u", "i", ".", "s", "h", "o", "w", "C", "i", "t", "a", "t", "i", "o", "n", "s">>
  @@ <<"f", "u", "l", "l", "w", "i", "d", "t", "h">> :> <<"u", "i", ".", "u", "s", "e", "F", "u", "l", "l", "W", "i", "d", "t", "h">>
  @@ <<"a", "c", "c", "e", "s", "s", "i", "b", "i", "l", "i", "t", "y">> :> <<"u", "i", ".", "a", "c", "c", "e", "s", "s", "i", "b", "i", "l", "i", "t", "y">>
  @@ <<"m", "o", "d", "e", "l">> :> <<"m", "o", "d", "e", "l", ".", "n", "a", "m", "e">>
  @@ <<"m", "a", "x", "t", "u", "r", "n", "s">> :> <<"m", "o", "d", "e", "l", ".", "m", "a", "x", "S", "e", "s", "s", "i", "o", "n", "T", "u", "r", "n", "s">>
  @@ <<"s", "e", "s", "s", "i", "o", "n", "t", "u", "r", "n", "s">> :> <<"m", "o", "d", "e", "l", ".", "m", "a", "x", "S", "e", "s", "s", "i", "o", "n", "T", "u", "r", "n", "s">>
  @@ <<"s", "a", "n", "d", "b", "o", "x">> :> <<"t", "o", "o", "l", "s", ".", "s", "a", "n", "d", "b", "o", "x">>
  @@ <<"a", "u", "t", "o", "a", "c", "c", "e", "p", "t">> :> <<"t", "o", "o", "l", "s", ".", "a", "u", "t", "o", "A", "c", "c", "e", "p", "t">>
  @@ <<"i", "n", "t", "e", "r", "a", "c", "t", "i", "v", "e", "s", "h", "e", "l", "l">> :> <<"t", "o", "o", "l", "s", ".", "s", "h", "e", "l", "l", ".", "e", "n", "a", "b", "l", "e", "I", "n", "t", "e", "r", "a", "c", "t", "i", "v", "e", "S", "h", "e", "l", "l">>
  @@ <<"r", "i", "p", "g", "r", "e", "p">> :> <<"t", "o", "o", "l", "s", ".", "u", "s", "e", "R", "i", "p", "g", "r", "e", "p">>
  @@ <<"g", "i", "t", "i", "g", "n", "o", "r", "e">> :> <<"c", "o", "n", "t", "e", "x", "t", ".", "f", "i", "l", "e", "F", "i", "l", "t", "e", "r", "i", "n", "g", ".", "r", "e", "s", "p", "e", "c", "t", "G", "i", "t", "I", "g", "n", "o", "r", "e">>
  @@ <<"g", "e", "m", "i", "n", "i", "i", "g", "n", "o", "r", "e">> :> <<"c", "o", "n", "t", "e", "x", "t", ".", "f", "i", "l", "e", "F", "i", "l", "t", "e", "r", "i", "n", "g", ".", "r", "e", "s", "p", "e", "c", "t", "G", "e", "m", "i", "n", "i", "I", "g", "n", "o", "r", "e">>
  @@ <<"t", "e", "l", "e", "m", "e", "t", "r", "y">> :> <<"p", "r", "i", "v", "a", "c", "y", ".", "u", "s", "a", "g", "e", "S", "t", "a", "t", "i", "s", "t", "i", "c", "s", "E", "n", "a", "b", "l", "e", "d">>
  @@ <<"s", "t", "a", "t", "i", "s", "t", "i", "c", "s">> :> <<"p", "r", "i", "v", "a", "c", "y", ".", "u", "s", "a", "g", "e", "S", "t", "a", "t", "i", "s", "t", "i", "c", "s", "E", "n", "a", "b", "l", "e", "d">>

\* isEnable is "undefined", "true" or "false"; the result is None for null
mapSettingToPath(setting, isEnable) ==
  LET normalized == lowerCase(removeChars(setting, Whitespace \cup {"-"}))
      path == IF normalized \in DOMAIN settingsMap THEN Some(settingsMap[normalized])
              ELSE None
  IN  IF isEnable # "undefined" /\ includes(normalized, <<"u", "p", "d", "a", "t", "e">>)
      THEN Some(<<"g", "e", "n", "e", "r", "a", "l", ".", "d", "i", "s", "a", "b", "l", "e", "A", "u", "t", "o", "U", "p", "d", "a", "t", "e">>)
      ELSE IF isEnable = "true" /\ path # None /\ includes(Get(path), <<"d", "i", "s", "a", "b", "l", "e">>)
      THEN path
      ELSE path

\* /^-?\d+(\.\d+)?$/
isNumber(str) ==
  LET unsigned == IF Len(str) > 0 /\ str[1] = "-" THEN Tail(str) ELSE str
      parts == splitOn(unsigned, ".")
      digits(s) == Len(s) > 0 /\ \A i \in 1..Len(s) : s[i] \in Digits
  IN  /\ Len(parts) \in {1, 2}
      /\ \A k \in 1..Len(parts) : digits(parts[k])

\* the JSON text of the value; parseFloat and JSON.stringify give a numeral
\* in canonical form back as it is
parseValue(value) ==
  LET trimmed == trim(value)
      isQuoted(q) == Len(trimmed) >= 1 /\ startsWith(trimmed, q) /\ endsWith(trimmed, q)
  IN  IF trimmed = <<"t", "r", "u", "e">> THEN primitive(<<"t", "r", "u", "e">>)
      ELSE IF trimmed = <<"f", "a", "l", "s", "e">> THEN primitive(<<"f", "a", "l", "s", "e">>)
      ELSE IF isNumber(trimmed) THEN primitive(trimmed)
      ELSE IF isQuoted(<<"\"">>) \/ isQuoted(<<"'">>)
      THEN primitive(quoted(slice(trimmed, 1, -1)))
      ELSE primitive(quoted(trimmed))

\* /server\s+([a-z0-9-_]+)/i: the name after the first "server" that
\* whitespace and a name follow; None if there is none
NameChars == LowerCaseLetters \cup UpperCaseLetters \cup Digits \cup {"-", "_"}

\* the longest run of characters of the class at the start of str
leadingRun(str, class) ==
  LET stops == {i \in 1..Len(str) : str[i] \notin class}
  IN  IF stops = {} THEN str
      ELSE SubSeq(str, 1, (CHOOSE i \in stops : \A j \in stops : i <= j) - 1)

\* the text of str from position i on
textFrom(str, i) == SubSeq(str, i, Len(str))

\* the text that follows the first occurrence in str (whatever the case) of
\* one of the keywords and the whitespace after it, where that text starts
\* with one of the characters firstChars; None if there is no such occurrence
afterKeyword(str, keywords, firstChars) ==
  LET lower == lowerCase(str)
      rest(i, keyword) == textFrom(str, i + Len(keyword))
      afterSpace(i, keyword) ==
        textFrom(rest(i, keyword), Len(leadingRun(rest(i, keyword), Whitespace)) + 1)
      matches(i, keyword) ==
        /\ i + Len(keyword) - 1 <= Len(str)
        /\ SubSeq(lower, i, i + Len(keyword) - 1) = keyword
        /\ leadingRun(rest(i, keyword), Whitespace) # <<>>
        /\ afterSpace(i, keyword) # <<>>
        /\ afterSpace(i, keyword)[1] \in firstChars
      at == {i \in 1..Len(str) : \E keyword \in keywords : matches(i, keyword)}
      first == CHOOSE i \in at : \A j \in at : i <= j
      keywordAt == CHOOSE keyword \in keywords : matches(first, keyword)
  IN  IF at = {} THEN None ELSE Some(afterSpace(first, keywordAt))

\* for an instruction that holds no "args": the command is the text after
\* (command|run) and whitespace, up to the end, and there are no args
parseMCPServerAddition(instruction) ==
  LET anyChar == {instruction[i] : i \in 1..Len(instruction)} \ {"\n"}
      nameMatch == afterKeyword(instruction, {<<"s", "e", "r", "v", "e", "r">>}, NameChars)
      commandMatch == afterKeyword(instruction, {<<"c", "o", "m", "m", "a", "n", "d">>, <<"r", "u", "n">>}, anyChar)
      serverName == leadingRun(Get(nameMatch), NameChars)
      command == trim(Get(commandMatch))
  IN  IF nameMatch = None THEN None
      ELSE IF commandMatch = None THEN None
      ELSE Some([path |-> <<"m", "c", "p", "S", "e", "r", "v", "e", "r", "s", ".">> \o serverName,
                 value |-> <<<<"c", "o", "m", "m", "a", "n", "d">>>> :> quoted(command),
                 operation |-> "add"])

\* the index of the first word "to" that ends a setting started at word
\* start and that a value follows; 0 if there is none
toAfter(words, start) ==
  LET at == {k \in (start + 1)..(Len(words) - 1) : lowerCase(words[k]) = <<"t", "o">>}
  IN  IF at = {} THEN 0 ELSE CHOOSE k \in at : \A j \in at : k <= j

\* the index of the word where the setting starts in the original
\* instruction: after the article (?:the\s+|a\s+|an\s+)? if the rest still
\* matches then (matchesAfterArticle), else after the first word
settingStart(original, matchesAfterArticle) ==
  IF Len(original) >= 2 /\ lowerCase(original[2]) \in Articles /\ matchesAfterArticle
  THEN 3 ELSE 2

\* for an instruction of one line
parseConfigInstruction(instruction) ==
  LET lowerInstruction == trim(lowerCase(instruction))
      originalInstruction == trim(instruction)
      cleanedLower == cleanedLowerOf(instruction)
      lower == wordsOf(cleanedLower)
      original == wordsOf(originalInstruction)
      n == Len(lower)
      rest(words, k) == join(SubSeq(words, k, Len(words)), <<" ">>)
      \* /^(enable|turn on)\s+(.+)$/ and /^(disable|turn off)\s+(.+)$/
      verbLength(verb, turn) ==
        IF n >= 2 /\ lower[1] = verb THEN 1
        ELSE IF n >= 3 /\ lower[1] = <<"t", "u", "r", "n">> /\ lower[2] = turn THEN 2
        ELSE 0
      enable == verbLength(<<"e", "n", "a", "b", "l", "e">>, <<"o", "n">>)
      disable == verbLength(<<"d", "i", "s", "a", "b", "l", "e">>, <<"o", "f", "f">>)
      \* /^set\s+(.+?)\s+to\s+(.+)$/
      setMatch == n >= 1 /\ lower[1] = <<"s", "e", "t">> /\ toAfter(lower, 2) # 0
      setOriginalFrom(k) == toAfter(original, k) # 0
      setOriginal ==
        /\ Len(original) >= 1 /\ lowerCase(original[1]) = <<"s", "e", "t">>
        /\ setOriginalFrom(2)
      setStart == settingStart(original, setOriginalFrom(3))
      \* /^(use|select)\s+(.+?)\s+(.+)$/
      useMatch == n >= 3 /\ lower[1] \in {<<"u", "s", "e">>, <<"s", "e", "l", "e", "c", "t">>}
      useOriginalFrom(k) == Len(original) >= k + 1
      useOriginal ==
        /\ Len(original) >= 1 /\ lowerCase(original[1]) \in {<<"u", "s", "e">>, <<"s", "e", "l", "e", "c", "t">>}
        /\ useOriginalFrom(2)
      useStart == settingStart(original, useOriginalFrom(3))
      changeTo(path, value) ==
        IF path = None THEN <<>>
        ELSE <<[path |-> Get(path), value |-> value, operation |-> "set"]>>
  IN  IF enable # 0
      THEN changeTo(mapSettingToPath(rest(lower, enable + 1), "true"), primitive(<<"t", "r", "u", "e">>))
      ELSE IF disable # 0
      THEN changeTo(mapSettingToPath(rest(lower, disable + 1), "false"), primitive(<<"t", "r", "u", "e">>))
      ELSE IF setMatch
      THEN IF setOriginal
           THEN changeTo(mapSettingToPath(
                           join(SubSeq(lower, 2, toAfter(lower, 2) - 1), <<" ">>),
                           "undefined"),
                         parseValue(rest(original, toAfter(original, setStart) + 1)))
           ELSE <<>>
      ELSE IF useMatch
      THEN IF useOriginal
           THEN changeTo(mapSettingToPath(lower[2], "undefined"),
                         parseValue(rest(original, useStart + 1)))
           ELSE <<>>
      ELSE IF includes(lowerInstruction, <<"a", "d", "d", " ", "m", "c", "p", " ", "s", "e", "r", "v", "e", "r">>)
                \/ includes(lowerInstruction, <<"a", "d", "d", " ", "s", "e", "r", "v", "e", "r">>)
      THEN IF parseMCPServerAddition(instruction) = None THEN <<>>
           ELSE <<Get(parseMCPServerAddition(instruction))>>
      ELSE <<>>

(***************************************************************************)
(* The instructions of the requests                                        *)
(***************************************************************************)
EnableAutoUpdate == <<"e", "n", "a", "b", "l", "e", " ", "a", "u", "t", "o", " ", "u", "p", "d", "a", "t", "e">>
DisableAutoUpdate == <<"d", "i", "s", "a", "b", "l", "e", " ", "a", "u", "t", "o", " ", "u", "p", "d", "a", "t", "e">>
EnableVimMode == <<"T", "u", "r", "n", " ", "o", "n", " ", "t", "h", "e", " ", "V", "i", "m", " ", "m", "o", "d", "e">>
SetTheme == <<"s", "e", "t", " ", "t", "h", "e", " ", "T", "h", "e", "m", "e", " ", "t", "o", " ", " ", "M", "i", "n", "t">>
UseModel == <<"u", "s", "e", " ", "m", "o", "d", "e", "l", " ", "g", "e", "m", "i", "n", "i", "-", "2">>
AddServer == <<"a", "d", "d", " ", "m", "c", "p", " ", "s", "e", "r", "v", "e", "r", " ", "s", "1", " ", "w", "i", "t", "h", " ", "c", "o", "m", "m", "a", "n", "d", " ", "t", "o", "o", "l">>
Unparsed == <<"m", "a", "k", "e", " ", "i", "t", " ", "f", "a", "s", "t">>
EnableVim == <<"e", "n", "a", "b", "l", "e", " ", "v", "i", "m", " ", "m", "o", "d", "e">>
DisableVim == <<"d", "i", "s", "a", "b", "l", "e", " ", "v", "i", "m", " ", "m", "o", "d", "e">>
EnableTelemetry == <<"e", "n", "a", "b", "l", "e", " ", "t", "e", "l", "e", "m", "e", "t", "r", "y">>
DisableTelemetry == <<"d", "i", "s", "a", "b", "l", "e", " ", "t", "e", "l", "e", "m", "e", "t", "r", "y">>

Instructions ==
  {EnableAutoUpdate, DisableAutoUpdate, EnableVimMode, SetTheme, UseModel,
   AddServer, Unparsed, EnableVim, DisableVim, EnableTelemetry, DisableTelemetry}

\* parseConfigInstruction of each of them, evaluated once
parsedInstructions == [instruction \in Instructions |-> parseConfigInstruction(instruction)]

(***************************************************************************)
(* config/loader.ts and config/editor.ts                                   *)
(***************************************************************************)
\* a settings file is None when it does not exist, else Some([text, config]):
\* text is "json" for a JSON object, whose leaves config maps from their
\* paths to their JSON texts, "empty" for a blank file, "invalid" for a file
\* that JSON.parse rejects
\* loadConfig throws when the file is not JSON
loadConfigThrows(file) == file # None /\ Get(file).text = "invalid"

\* the configuration loaded; None for null
loadConfig(file) ==
  IF file = None THEN None
  ELSE IF Get(file).text = "empty" THEN Some(<<>>)
  ELSE Some(Get(file).config)

\* path is pre, or a path below pre
isUnder(path, pre) == Len(path) >= Len(pre) /\ SubSeq(path, 1, Len(pre)) = pre

\* config[...path]: the value at the path of the parts, undefinedValue if
\* there is none
valueAt(config, parts) ==
  LET below == {p \in DOMAIN config : isUnder(p, parts)}
  IN  IF below = {} THEN undefinedValue
      ELSE [rel \in {SubSeq(p, Len(parts) + 1, Len(p)) : p \in below} |->
              config[parts \o rel]]

\* config with value at the path of the parts, in place of what was there
withValueAt(config, parts, value) ==
  LET kept == {p \in DOMAIN config : ~isUnder(p, parts)}
      added == {parts \o rel : rel \in DOMAIN value}
  IN  [p \in kept \cup added |->
         IF p \in added THEN value[SubSeq(p, Len(parts) + 1, Len(p))] ELSE config[p]]

\* { ...old, ...new } of two objects: the keys of new replace those of old
spread(old, new) ==
  LET replaced == {<<p[1]>> : p \in DOMAIN new}
      kept == {p \in DOMAIN old : <<p[1]>> \notin replaced}
  IN  [p \in kept \cup DOMAIN new |-> IF p \in DOMAIN new THEN new[p] ELSE old[p]]

\* applyChange throws a TypeError when a part of the path before the last
\* one is a boolean, a number or a string of the configuration
applyChangeThrows(config, change) ==
  LET pathParts == splitOn(change.path, ".")
  IN  \E i \in 1..(Len(pathParts) - 1) : SubSeq(pathParts, 1, i) \in DOMAIN config

\* the configuration after the change, with the old and the new value; the
\* parser gives the operations set and add only
applyChange(config, change) ==
  LET pathParts == splitOn(change.path, ".")
      oldValue == valueAt(config, pathParts)
      newValue == IF change.operation = "add" /\ isObject(oldValue)
                  THEN spread(oldValue, change.value)
                  ELSE change.value
  IN  [config |-> withValueAt(config, pathParts, newValue),
       oldValue |-> oldValue, newValue |-> newValue]

\* the working copy after the changes from the i-th on, and what was applied
RECURSIVE applyChanges(_, _, _, _)
applyChanges(config, changes, i, applied) ==
  IF i > Len(changes) THEN [config |-> config, appliedChanges |-> applied]
  ELSE LET result == applyChange(config, changes[i])
       IN  applyChanges(result.config, changes, i + 1,
             applied \o <<[path |-> changes[i].path, oldValue |-> result.oldValue,
                           newValue |-> result.newValue]>>)

\* the lines of the preview: "Add path = new" for a value that was undefined,
\* else "Update path: old -> new", old and new as JSON.stringify gives them
generatePreview(changes) ==
  [i \in 1..Len(changes) |->
     IF changes[i].oldValue = undefinedValue
     THEN [line |-> "Add", path |-> changes[i].path, newStr |-> changes[i].newValue]
     ELSE [line |-> "Update", path |-> changes[i].path,
           oldStr |-> changes[i].oldValue, newStr |-> changes[i].newValue]]

\* the warnings of a change, in the order of the checks
warningsOf(change) ==
  (IF startsWith(change.path, <<"e", "x", "p", "e", "r", "i", "m", "e", "n", "t", "a", "l", ".">>) THEN <<"experimental">> ELSE <<>>)
    \o (IF includes(change.path, <<"t", "r", "u", "s", "t">>) \/ includes(change.path, <<"a", "u", "t", "o", "A", "c", "c", "e", "p", "t">>)
        THEN <<"security implications">> ELSE <<>>)
    \o (IF change.path = <<"t", "o", "o", "l", "s", ".", "s", "a", "n", "d", "b", "o", "x">> THEN <<"requires restarting">> ELSE <<>>)
    \o (IF startsWith(change.path, <<"m", "o", "d", "e", "l", ".">>) THEN <<"new conversations">> ELSE <<>>)

RECURSIVE validateChanges(_)
validateChanges(changes) ==
  IF changes = <<>> THEN <<>>
  ELSE warningsOf(Head(changes)) \o validateChanges(Tail(changes))

\* the result of editConfig when it returns from its catch block
editFailed(message) ==
  [success |-> FALSE, changes |-> <<>>, configPath |-> "",
   preview |-> <<[line |-> "Error", message |-> message]>>, warnings |-> <<>>,
   backupPath |-> None]

\* editConfig(instruction, scope, dryRun) over the file of the scope, when
\* saveConfig can write it or not, backupConfig can write the backup file or
\* not (it returns null then) and backupCount backup files exist: the
\* result (backupPath: None, or Some of the number of the backup), the file
\* afterwards and whether a backup file was written
editConfig(file, canWrite, canBackup, backupCount, instruction, scope, dryRun) ==
  LET editWith(changes, loaded) ==
        LET config == IF loaded = None THEN <<>> ELSE Get(loaded)
            applied == applyChanges(config, changes, 1, <<>>)
            preview == generatePreview(applied.appliedChanges)
            warnings == validateChanges(changes)
            unchanged(result) == [result |-> result, file |-> file, backedUp |-> FALSE]
            backedUp == file # None /\ canBackup
        IN  IF Len(changes) = 0
            THEN unchanged([success |-> FALSE, changes |-> <<>>, configPath |-> "",
                            preview |-> <<[line |-> "Could not parse instruction"]>>,
                            warnings |-> <<"Try patterns like:">>, backupPath |-> None])
            ELSE IF loadConfigThrows(file)
            THEN unchanged(editFailed("Failed to load configuration"))
            ELSE IF \E i \in 1..Len(changes) : applyChangeThrows(config, changes[i])
            THEN unchanged(editFailed("TypeError"))
            ELSE IF dryRun
            THEN unchanged([success |-> TRUE, changes |-> applied.appliedChanges,
                            configPath |-> "", preview |-> preview,
                            warnings |-> warnings \o <<"DRY RUN: Changes not saved">>,
                            backupPath |-> None])
            ELSE IF ~canWrite
            THEN [result |-> editFailed("Failed to save configuration"), file |-> file,
                  backedUp |-> backedUp]
            ELSE [result |-> [success |-> TRUE, changes |-> applied.appliedChanges,
                              configPath |-> scope, preview |-> preview,
                              warnings |-> warnings,
                              backupPath |-> IF backedUp THEN Some(backupCount + 1) ELSE None],
                  file |-> Some([text |-> "json", config |-> applied.config]),
                  backedUp |-> backedUp]
  IN  editWith(parsedInstructions[instruction], loadConfig(file))

(***************************************************************************)
(* The configure_gemini_cli tool                                           *)
(***************************************************************************)
\* the tool result of an edit, and the files after it
configured(p, edit) ==
  /\ settings' = [settings EXCEPT ![p.scope] = edit.file]
  /\ backups' = IF edit.backedUp THEN backups + 1 ELSE backups
  /\ lastEdit' = Some([params |-> p, result |-> edit.result,
                       isError |-> ~edit.result.success])
  /\ lastQuery' = None
  /\ UNCHANGED writable

\* a handler that passes dryRun = false whatever the request says
configureGeminiCliSaving(p, canBackup) ==
  configured(p, editConfig(settings[p.scope], writable[p.scope], canBackup, backups,
                           p.instruction, p.scope, FALSE))

\* configureGeminiCli(p): editConfig(instruction, scope, dryRun || false)
configureGeminiCli(p, canBackup) ==
  LET dryRun == p.dryRun = Some(TRUE)
  IN  configured(p, editConfig(settings[p.scope], writable[p.scope], canBackup, backups,
                               p.instruction, p.scope, dryRun))

(***************************************************************************)
(* The query_gemini_config tool                                            *)
(***************************************************************************)
\* getNestedValue(obj, path): the value at the path, undefinedValue when a
\* part is missing or the value before it is no object; an object of the
\* settings files of the model holds at least one leaf
getNestedValue(obj, path) == valueAt(obj, splitOn(path, "."))

nullValue == primitive(<<"n", "u", "l", "l">>)

\* the object that a spread makes of a loaded configuration: { ...null } is {}
spreadOf(loaded) == IF loaded = None THEN <<>> ELSE Get(loaded)

\* params.setting is given and is not the empty string
settingGiven(p) == p.setting # None /\ Get(p.setting) # <<>>

\* the output of the tool: configPath is None, or Some of the scope of the
\* file
queryOutput(value, source, exists, configPath) ==
  [isError |-> FALSE, value |-> value, source |-> source, exists |-> exists,
   configPath |-> configPath]

\* scope 'merged': project overrides user, key by key of the top level
queryMerged(userFile, projectFile, p) ==
  LET userConfig == loadConfig(userFile)
      projectConfig == loadConfig(projectFile)
      mergedConfig == spread(spreadOf(userConfig), spreadOf(projectConfig))
      valueOf(config) == getNestedValue(config, Get(p.setting))
      found(value, source, configPath) ==
        queryOutput(value, source, value # undefinedValue, configPath)
  IN  IF settingGiven(p)
      THEN IF projectConfig # None /\ valueOf(Get(projectConfig)) # undefinedValue
           THEN found(valueOf(mergedConfig), "project", Some("project"))
           ELSE IF userConfig # None /\ valueOf(Get(userConfig)) # undefinedValue
           THEN found(valueOf(mergedConfig), "user", Some("user"))
           ELSE found(valueOf(mergedConfig), "default", None)
      ELSE queryOutput(mergedConfig, "merged", TRUE, None)

\* scope 'user' or 'project'
queryScope(file, scope, p) ==
  LET config == loadConfig(file)
      value == IF config = None THEN nullValue
               ELSE IF settingGiven(p) THEN getNestedValue(Get(config), Get(p.setting))
               ELSE Get(config)
  IN  queryOutput(value, scope, file # None, Some(scope))

\* the result of queryGeminiConfig(p) over the two settings files
queryResultOf(userFile, projectFile, p) ==
  LET scope == IF p.scope = None THEN "merged" ELSE Get(p.scope)
      read == IF scope = "merged" THEN {userFile, projectFile}
              ELSE IF scope = "user" THEN {userFile} ELSE {projectFile}
  IN  IF \E file \in read : loadConfigThrows(file)
      THEN [isError |-> TRUE, error |-> "Failed to load configuration"]
      ELSE IF scope = "merged" THEN queryMerged(userFile, projectFile, p)
      ELSE queryScope(IF scope = "user" THEN userFile ELSE projectFile, scope, p)

queryGeminiConfig(p) ==
  /\ lastQuery' = Some([params |-> p,
                        response |-> queryResultOf(settings["user"], settings["project"], p)])
  /\ lastEdit' = None
  /\ UNCHANGED <<settings, writable, backups>>

(***************************************************************************)
(* Inputs                                                                  *)
(***************************************************************************)
vim == <<"v", "i", "m">>
Vim == <<"V", "i", "m">>
mode == <<"m", "o", "d", "e">>
Mode == <<"M", "o", "d", "e">>
Themes == <<"T", "h", "e", "m", "e", "s">>
Tools == <<"T", "o", "o", "l", "s">>
use == <<"u", "s", "e">>
here == <<"h", "e", "r", "e">>
other == <<"o", "t", "h", "e", "r">>
text == <<"t", "e", "x", "t">>
list == <<"l", "i", "s", "t">>
keys == <<"k", "e", "y", "s">>
tips == <<"t", "i", "p", "s">>
to == <<"t", "o">>
a == <<"a">>

\* a text of the words, one space between them
Sentence(words) == join(words, <<" ">>)

\* n copies of word
Repeat(word, n) == [i \in 1..n |-> word]

DocVimMode ==
  [title |-> Sentence(<<Vim, Mode>>), category |-> "cli",
   content |-> Sentence(<<use, vim, here>>),
   headings |-> <<Sentence(<<Vim, keys>>)>>]

DocThemes ==
  [title |-> Themes, category |-> "cli",
   content |-> Sentence(<<vim, vim, other, vim, vim, vim>>),
   headings |-> <<>>]

DocTools ==
  [title |-> Tools, category |-> "tools",
   content |-> Sentence(<<other, text, here>>),
   headings |-> <<Sentence(<<Tools, list>>), <<"a", "-", "b">>>>]

\* the query term in the title only, and no body
DocVimTitle ==
  [title |-> Vim, category |-> "tools", content |-> <<>>, headings |-> <<>>]

\* DocVimMode but for its title
DocVimModeRetitled == [DocVimMode EXCEPT !.title = Themes]

\* upper case, punctuation, hyphens, underscores and runs of whitespace
DocPunctuated ==
  [title |-> Vim \o <<"-">> \o mode \o <<" ">> \o tips, category |-> "core",
   content |-> <<"A", ":", " ">> \o Vim \o <<",", " ">> \o mode
                 \o <<"!", " ", "-", "-", "-", " ", "x", "_", "y", "\n", " ">>
                 \o vim \o <<".">>,
   headings |-> <<<<"_", "_", "_">>, Sentence(<<Mode, list>>)>>]

\* headings that match and headings that do not, in turn
DocHeadings ==
  [title |-> Tools, category |-> "cli",
   content |-> Sentence(<<use, vim, here>>),
   headings |-> <<Sentence(<<Mode, list>>), other, Sentence(<<Vim, keys>>),
                  <<"a", "-", "b">>, Mode>>]

Templates ==
  {DocVimMode, DocThemes, DocTools, DocVimTitle, DocVimModeRetitled, DocPunctuated}

\* a collection of the templates, each document with its position as id
Corpus(templates) ==
  [i \in 1..Len(templates) |->
     [id |-> i, title |-> templates[i].title, category |-> templates[i].category,
      liveUrl |-> i, content |-> templates[i].content,
      headings |-> templates[i].headings]]

\* DocVimMode as JSON.parse gives it from an index entry without content
DocNoContent ==
  [id |-> 1, title |-> DocVimMode.title, category |-> "cli", liveUrl |-> 1,
   headings |-> DocVimMode.headings]

\* a collection whose first document is malformed
MalformedCorpus ==
  <<DocNoContent>> \o SubSeq(Corpus(<<DocVimMode, DocThemes, DocTools>>), 2, 3)

MaxDocs == 11

\* a large collection: every third document is DocVimMode, the rest DocVimTitle
LargeCorpus(n) ==
  Corpus([i \in 1..n |-> IF i % 3 = 0 THEN DocVimMode ELSE DocVimTitle])

ScenarioA == Corpus(<<DocVimMode, DocThemes, DocTools>>)

\* the templates of the two-document collections
PairTemplates == {DocVimMode, DocThemes, DocVimTitle, DocVimModeRetitled}

Corpora ==
  {Corpus(<<t>>) : t \in Templates}
    \cup {Corpus(<<t1, t2>>) : t1 \in PairTemplates, t2 \in PairTemplates}
    \cup {ScenarioA,
          Corpus(<<DocPunctuated, DocTools, DocVimMode>>),
          Corpus(<<DocVimTitle, DocPunctuated, DocVimTitle>>),
          Corpus(<<DocHeadings, DocTools, DocTools>>),
          Corpus(<<DocVimModeRetitled, DocTools, DocVimMode, DocTools>>),
          LargeCorpus(6), LargeCorpus(MaxDocs), MalformedCorpus}

\* a word of twenty characters
longword == Repeat("x", 20)

\* more short words than the excerpt window holds, then the query term
DocShortWords ==
  [title |-> Tools, category |-> "cli",
   content |-> Sentence(Repeat(to, contextWords + 1) \o <<vim>>),
   headings |-> <<>>]

\* the query term in the title only, a body longer than maxLength
DocLongNoMatch ==
  [title |-> Vim, category |-> "cli",
   content |-> Sentence(Repeat(longword, contextWords)),
   headings |-> <<>>]

\* the query term behind more than maxLength characters of the body
DocLongMatch ==
  [title |-> Vim, category |-> "tools",
   content |-> Sentence(Repeat(longword, contextWords - 5) \o <<vim>>
                          \o Repeat(longword, 10)),
   headings |-> <<>>]

\* the query term in the middle of more words than the window holds
DocManyWords ==
  [title |-> Sentence(<<Vim, tips>>), category |-> "tools",
   content |-> Sentence(Repeat(use, contextWords + 1) \o <<Vim>>
                          \o Repeat(here, contextWords + 1)),
   headings |-> <<>>]

LongTemplates == {DocShortWords, DocLongNoMatch, DocLongMatch, DocManyWords}

LongCorpora == {Corpus(<<t, DocTools, DocTools>>) : t \in LongTemplates}

MainQuery == Sentence(<<vim, mode>>)

\* the queries that hold no token: short words only, the empty string,
\* whitespace only
NoTokenQueries == {Sentence(<<to, a>>), <<>>, <<" ", "\n">>}

Queries == {vim, MainQuery, Sentence(<<vim, vim>>)} \cup NoTokenQueries
Categories == {undefined, "cli", "tools", "nonexistent", ""}
MaxResultsChoices == {None, Some(1), Some(2), Some(20)}
MinScoreChoices == {None, Some(0), Some(Scale \div 2), Some(0 - Scale)}

\* the options of the calls: every query with the defaults, MainQuery with
\* one option given, MainQuery with a category and a bound of 1, and the
\* queries without a token with some of the categories
OptionsChoices ==
  {opts \in [query : Queries, category : Categories,
             maxResults : MaxResultsChoices, minScore : MinScoreChoices] :
     /\ opts.query # MainQuery => opts.maxResults = None
     /\ opts.query \notin {MainQuery, Sentence(<<to, a>>)} => opts.minScore = None
     /\ opts.query = Sentence(<<to, a>>) => opts.minScore \in {None, Some(0)}
     /\ opts.query \notin NoTokenQueries \cup {MainQuery} => opts.category = undefined
     /\ opts.query = <<>> => opts.category \in {undefined, "tools"}
     /\ opts.query = <<" ", "\n">> => opts.category \in {undefined, ""}
     /\ opts.query = Sentence(<<to, a>>)
          => opts.category \in {undefined, "cli", "nonexistent"}
     /\ opts.minScore # None => opts.category = undefined /\ opts.maxResults = None
     /\ opts.category # undefined /\ opts.maxResults # None
          => opts.category = "cli" /\ opts.maxResults = Some(1)}

ParamsChoices ==
  {p \in [query : {MainQuery, Sentence(<<to, a>>)}, category : Categories,
          maxResults : {None, Some(2)}] :
     /\ p.query # MainQuery => p.category = undefined /\ p.maxResults = None
     /\ p.category = undefined \/ p.maxResults = None}

(***************************************************************************)
(* The state machine                                                       *)
(***************************************************************************)
\* the collections whose index file may be missing
Unreadable == {Corpus(<<t>>) : t \in Templates}

\* the state of a server process that has handled no request, over collection c
InitOver(c) ==
  /\ documents = c
  /\ indexFile \in (IF c \in Unreadable THEN {"present", "missing"} ELSE {"present"})
  /\ cachedIndex = None
  /\ lastCall = "none"
  /\ options = None
  /\ results = <<>>
  /\ params = None
  /\ response = None
  /\ thrown = None
  /\ indexWritten = FALSE
  /\ sourceFiles = [llms |-> None, readme |-> None]
  /\ settings = [scope \in {"user", "project"} |-> None]
  /\ writable = [scope \in {"user", "project"} |-> TRUE]
  /\ backups = 0
  /\ lastEdit = None
  /\ lastQuery = None

Init == \E c \in Corpora : InitOver(c)

\* the collections with long documents
InitLong == \E c \in LongCorpora : InitOver(c)

\* mutant: the results array kept from one call to the next
SearchDocumentsKeepingResults ==
  \E opts \in OptionsChoices :
    /\ lastCall' = "searchDocuments"
    /\ options' = Some(opts)
    /\ IF searchDocumentsThrows(documents, opts)
       THEN results' = <<>> /\ thrown' = Some("TypeError")
       ELSE results' = results \o searchDocuments(documents, opts) /\ thrown' = None
    /\ params' = None
    /\ response' = None
    /\ UNCHANGED <<documents, indexFile, cachedIndex, indexWritten, sourceFiles>>
    /\ UNCHANGED configVars

\* mutant: the category filter applied to the caller's array in place
SearchDocumentsFilteringInPlace ==
  \E opts \in OptionsChoices :
    /\ lastCall' = "searchDocuments"
    /\ options' = Some(opts)
    /\ IF searchDocumentsThrows(documents, opts)
       THEN results' = <<>> /\ thrown' = Some("TypeError")
       ELSE results' = searchDocuments(documents, opts) /\ thrown' = None
    /\ documents' = filterByCategory(documents, opts.category)
    /\ params' = None
    /\ response' = None
    /\ UNCHANGED <<indexFile, cachedIndex, indexWritten, sourceFiles>>
    /\ UNCHANGED configVars

\* a caller calls searchDocuments(documents, opts)
SearchDocuments ==
  \E opts \in OptionsChoices :
    /\ lastCall' = "searchDocuments"
    /\ options' = Some(opts)
    /\ IF searchDocumentsThrows(documents, opts)
       THEN results' = <<>> /\ thrown' = Some("TypeError")
       ELSE results' = searchDocuments(documents, opts) /\ thrown' = None
    /\ params' = None
    /\ response' = None
    /\ UNCHANGED <<documents, indexFile, cachedIndex, indexWritten, sourceFiles>>
    /\ UNCHANGED configVars

\* the server handles a search_gemini_docs request
SearchGeminiDocs == \E p \in ParamsChoices : searchGeminiDocs(p)

Next == SearchDocuments \/ SearchGeminiDocs

Spec == Init /\ [][Next]_vars

SpecLong == InitLong /\ [][Next]_vars

\* the README document that updateDocsIndex puts first
DocReadme ==
  [title |-> Sentence(<<Vim, tips>>), category |-> "general",
   content |-> Sentence(<<vim, mode, tips>>), headings |-> <<>>]

Downloads ==
  {[llms |-> None, readme |-> Some(DocReadme)],
   [llms |-> Some(<<>>), readme |-> Some(DocReadme)],
   [llms |-> Some(<<DocTools, DocTools, DocPunctuated>>), readme |-> Some(DocReadme)]}

\* the server handles an update_gemini_docs request
UpdateGeminiDocs == \E download \in Downloads : updateGeminiDocs(download)

\* the collections of the server that also refreshes its documentation
ServerCorpora ==
  {ScenarioA, Corpus(<<DocVimModeRetitled, DocTools, DocVimMode, DocTools>>)}

InitServer == \E c \in ServerCorpora \cup {Corpus(<<DocVimMode>>)} : InitOver(c)

NextServer == Next \/ UpdateGeminiDocs

SpecServer == InitServer /\ [][NextServer]_vars


(***************************************************************************)
(* The configuration tools: inputs and state machine                       *)
(***************************************************************************)
Scopes == {"user", "project"}

\* the instructions of the requests that are no dry run
AppliedInstructions ==
  {EnableAutoUpdate, DisableAutoUpdate, SetTheme, Unparsed, EnableVim, DisableVim}

\* the requests: every instruction as a dry run for the user scope, some of
\* them applied, one without dryRun, and one for the project scope
ConfigParamsChoices ==
  {p \in [instruction : Instructions, scope : Scopes,
          dryRun : {None, Some(FALSE), Some(TRUE)}] :
     /\ p.dryRun # Some(TRUE) => p.instruction \in AppliedInstructions
     /\ p.scope = "project" => p.instruction = EnableAutoUpdate
     /\ p.dryRun = None => p.instruction = SetTheme /\ p.scope = "user"}

\* settings files
JsonFile(config) == Some([text |-> "json", config |-> config])
EmptyFile == Some([text |-> "empty", config |-> <<>>])
InvalidFile == Some([text |-> "invalid", config |-> <<>>])

\* { "general": { "disableAutoUpdate": false }, "ui": { "theme": "Dark" } }
ConfigWithTheme ==
  <<<<"g", "e", "n", "e", "r", "a", "l">>, <<"d", "i", "s", "a", "b", "l", "e", "A", "u", "t", "o", "U", "p", "d", "a", "t", "e">>>> :> <<"f", "a", "l", "s", "e">>
    @@ <<<<"u", "i">>, <<"t", "h", "e", "m", "e">>>> :> quoted(<<"D", "a", "r", "k">>)

\* { "general": "off", "mcpServers": { "s1": { "command": "old", "cwd": "x" } } }
ConfigWithServer ==
  <<<<"g", "e", "n", "e", "r", "a", "l">>>> :> quoted(<<"o", "f", "f">>)
    @@ <<<<"m", "c", "p", "S", "e", "r", "v", "e", "r", "s">>, <<"s", "1">>, <<"c", "o", "m", "m", "a", "n", "d">>>> :> quoted(<<"o", "l", "d">>)
    @@ <<<<"m", "c", "p", "S", "e", "r", "v", "e", "r", "s">>, <<"s", "1">>, <<"c", "w", "d">>>> :> quoted(<<"x">>)

\* the user settings file and whether saveConfig can write it
UserFiles ==
  {[file |-> None, writable |-> TRUE],
   [file |-> None, writable |-> FALSE],
   [file |-> EmptyFile, writable |-> TRUE],
   [file |-> InvalidFile, writable |-> TRUE],
   [file |-> JsonFile(ConfigWithTheme), writable |-> TRUE],
   [file |-> JsonFile(ConfigWithTheme), writable |-> FALSE],
   [file |-> JsonFile(ConfigWithServer), writable |-> TRUE]}

\* no documentation tool is called
DocsIdle ==
  /\ documents = <<>>
  /\ indexFile = "missing"
  /\ cachedIndex = None
  /\ lastCall = "none"
  /\ options = None
  /\ results = <<>>
  /\ params = None
  /\ response = None
  /\ thrown = None
  /\ indexWritten = FALSE
  /\ sourceFiles = [llms |-> None, readme |-> None]

InitConfig ==
  /\ DocsIdle
  /\ \E user \in UserFiles :
       /\ settings = [scope \in Scopes |-> IF scope = "user" THEN user.file ELSE None]
       /\ writable = [scope \in Scopes |-> IF scope = "user" THEN user.writable ELSE TRUE]
  /\ backups = 0
  /\ lastEdit = None
  /\ lastQuery = None

MaxBackups == 1

\* the server handles a configure_gemini_cli request, and the backup file
\* can be written or not; the requests that would write a backup file stop
\* at MaxBackups backup files
ConfigureGeminiCli ==
  \E p \in ConfigParamsChoices, canBackup \in BOOLEAN :
    /\ p.dryRun = Some(TRUE) \/ settings[p.scope] = None \/ backups < MaxBackups
    /\ configureGeminiCli(p, canBackup)
    /\ UNCHANGED docVars

\* the settings that the queries name
QueriedSettings ==
  {<<"g", "e", "n", "e", "r", "a", "l", ".", "v", "i", "m", "M", "o", "d", "e">>,
   <<"g", "e", "n", "e", "r", "a", "l", ".", "d", "i", "s", "a", "b", "l", "e", "A", "u", "t", "o", "U", "p", "d", "a", "t", "e">>,
   <<"u", "i", ".", "t", "h", "e", "m", "e">>,
   <<"g", "e", "n", "e", "r", "a", "l">>,
   <<>>}

\* the queries: params.setting and params.scope are optional
QueryParamsChoices ==
  [setting : {None} \cup {Some(path) : path \in QueriedSettings},
   scope : {None, Some("user"), Some("project"), Some("merged")}]

\* the server handles a query_gemini_config request
QueryGeminiConfig ==
  \E p \in QueryParamsChoices :
    /\ queryGeminiConfig(p)
    /\ UNCHANGED docVars

NextConfig == ConfigureGeminiCli \/ QueryGeminiConfig

SpecConfig == InitConfig /\ [][NextConfig]_vars

(***************************************************************************)
(* The last searchDocuments call, as the properties read it                *)
(***************************************************************************)
\* the collection searchDocuments was called with: the cached index if
\* searchGeminiDocs called it
LastDocuments == IF lastCall = "searchGeminiDocs" THEN Get(cachedIndex) ELSE documents

\* searchDocuments was called over well-formed documents and returned a list
Searched ==
  /\ options # None
  /\ thrown = None
  /\ \A i \in 1..Len(LastDocuments) : ~isMalformed(LastDocuments[i])
LastOptions == Get(options)
LastQueryTokens == tokenize(LastOptions.query)
LastQueryTokenSet == {LastQueryTokens[i] : i \in 1..Len(LastQueryTokens)}
LastFiltered == filterByCategory(LastDocuments, LastOptions.category)
LastScores == scoresOf(LastFiltered, contentTokensOf(LastFiltered), LastQueryTokens)
LastFieldScores ==
  fieldScoresOf(LastFiltered, contentTokensOf(LastFiltered), LastQueryTokens)

\* options.minScore, or 0.01 when it is not given
GivenMinScore ==
  IF LastOptions.minScore = None THEN Scale \div 100 ELSE Get(LastOptions.minScore)

\* options.maxResults is given and lies in 1..20
MaxResultsGiven == LastOptions.maxResults # None /\ Get(LastOptions.maxResults) \in 1..20
GivenMaxResults == Get(LastOptions.maxResults)

\* K: the number of documents of the filtered set whose score is >= minScore
Clearing == {i \in 1..Len(LastFiltered) : LastScores[i] >= GivenMinScore}
K == Cardinality(Clearing)

ResultIds == [i \in 1..Len(results) |-> results[i].document.id]
ResultIdSet == {results[i].document.id : i \in 1..Len(results)}

\* the tokens of a text, as a set
TokenSet(str) == LET tokens == tokenize(str) IN {tokens[i] : i \in 1..Len(tokens)}

\* sub occurs in str
Contains(str, sub) ==
  \E i \in 1..(Len(str) - Len(sub) + 1) : SubSeq(str, i, i + Len(sub) - 1) = sub

(***************************************************************************)
(* C1: every result of searchDocuments has relevanceScore >= minScore,     *)
(* where minScore is options.minScore, or 0.01 when it is not given.       *)
(***************************************************************************)
C1_Threshold ==
  Searched => \A i \in 1..Len(results) : results[i].relevanceScore >= GivenMinScore

\* a call with minScore 0.5 that returns a document and leaves out one that
\* the default threshold would have let through
C1_Witness ==
  /\ Searched
  /\ LastOptions.minScore = Some(Scale \div 2)
  /\ results # <<>>
  /\ \E i \in 1..Len(LastFiltered) :
       /\ LastScores[i] >= Scale \div 100
       /\ LastScores[i] < Scale \div 2
       /\ LastFiltered[i].id \notin ResultIdSet

(***************************************************************************)
(* C2: whenever options.category is set (to a category some documents      *)
(* carry, to one that none carries, or to the empty string), every result  *)
(* has document.category equal to options.category.                        *)
(***************************************************************************)
C2_CategoryFilter ==
  Searched /\ LastOptions.category # undefined
    => \A i \in 1..Len(results) : results[i].document.category = LastOptions.category

(***************************************************************************)
(* C3: for maxResults in 1..20, searchDocuments returns at most            *)
(* min(maxResults, K) results, K being the number of documents of the      *)
(* category-filtered set whose composite score is >= minScore.             *)
(***************************************************************************)
C3_Bound ==
  Searched /\ MaxResultsGiven => Len(results) <= Min(GivenMaxResults, K)

\* a call with maxResults 2 over a set where more than 2 documents clear
\* minScore, which returns 2
C3_Witness ==
  /\ Searched
  /\ LastOptions.maxResults = Some(2)
  /\ K > 2
  /\ Len(results) = 2

(***************************************************************************)
(* C4: when K >= maxResults, searchDocuments returns exactly maxResults    *)
(* results, and no document left out has a score strictly greater than a   *)
(* returned document's score.                                              *)
(***************************************************************************)
C4_TopResults ==
  Searched /\ MaxResultsGiven /\ K >= GivenMaxResults
    => /\ Len(results) = GivenMaxResults
       /\ \A i \in 1..Len(LastFiltered) :
            LastFiltered[i].id \notin ResultIdSet
              => \A r \in 1..Len(results) : LastScores[i] <= results[r].relevanceScore

\* more documents clear minScore than maxResults lets through; one that is
\* left out stands before a returned one in the collection and scores less
C4_Witness ==
  /\ Searched /\ MaxResultsGiven
  /\ K > GivenMaxResults
  /\ Len(results) = GivenMaxResults
  /\ \E i \in Clearing, r \in 1..Len(results) :
       /\ LastFiltered[i].id \notin ResultIdSet
       /\ LastFiltered[i].id < results[r].document.id
       /\ LastScores[i] < results[r].relevanceScore

(***************************************************************************)
(* C5: the returned list is ordered by relevanceScore non-increasing, and  *)
(* two results with equal relevanceScore keep the relative order of their  *)
(* documents in the (category-filtered) input sequence.                    *)
(***************************************************************************)
C5_Order ==
  \A i \in 1..Len(results), j \in 1..Len(results) :
    i < j => /\ results[i].relevanceScore >= results[j].relevanceScore
             /\ results[i].relevanceScore = results[j].relevanceScore
                  => results[i].document.id < results[j].document.id

\* a list with two results of equal score, and with a result that the sort
\* moved in front of a document that precedes it in the collection
C5_Witness ==
  /\ \E i \in 1..Len(results), j \in 1..Len(results) :
       i < j /\ results[i].relevanceScore = results[j].relevanceScore
  /\ \E i \in 1..Len(results), j \in 1..Len(results) :
       /\ i < j
       /\ results[i].relevanceScore > results[j].relevanceScore
       /\ results[i].document.id > results[j].document.id

(***************************************************************************)
(* C6: of two documents that are identical except that one's title holds   *)
(* a query token and the other's does not, the one with the title match    *)
(* has the strictly higher composite score, whatever the rest of the       *)
(* collection and whatever the two bodies contain.                         *)
(***************************************************************************)
\* documents i and j of the filtered set differ in their titles only, and of
\* the two titles only that of i holds a query token
TitleMatchPair(i, j) ==
  /\ LastFiltered[i].content = LastFiltered[j].content
  /\ LastFiltered[i].headings = LastFiltered[j].headings
  /\ LastFiltered[i].category = LastFiltered[j].category
  /\ TokenSet(LastFiltered[i].title) \cap LastQueryTokenSet # {}
  /\ TokenSet(LastFiltered[j].title) \cap LastQueryTokenSet = {}

\* the number of documents of the filtered set whose body holds the token
BodyFrequency(token) ==
  Cardinality({k \in 1..Len(LastFiltered) : token \in TokenSet(LastFiltered[k].content)})

\* the claim as it was made
C6_TitleMatchHigher ==
  Searched
    => \A i \in 1..Len(LastFiltered), j \in 1..Len(LastFiltered) :
         TitleMatchPair(i, j) => LastScores[i] > LastScores[j]

\* C6 as amended: the document with the title match scores strictly higher
\* when every query token of its title is in the body of fewer than
\* totalDocs - 1 documents of the filtered set, so that its idf is positive
C6_TitleMatchHigherIfRare ==
  Searched
    => \A i \in 1..Len(LastFiltered), j \in 1..Len(LastFiltered) :
         /\ TitleMatchPair(i, j)
         /\ \A token \in TokenSet(LastFiltered[i].title) \cap LastQueryTokenSet :
              BodyFrequency(token) + 1 < Len(LastFiltered)
         => LastScores[i] > LastScores[j]

\* such a pair in a searched collection, the query tokens of the title being
\* rare enough, one of them in both bodies
C6_Witness ==
  /\ Searched
  /\ \E i \in 1..Len(LastFiltered), j \in 1..Len(LastFiltered) :
       /\ TitleMatchPair(i, j)
       /\ \A token \in TokenSet(LastFiltered[i].title) \cap LastQueryTokenSet :
            BodyFrequency(token) + 1 < Len(LastFiltered)
       /\ \E token \in TokenSet(LastFiltered[i].title) \cap LastQueryTokenSet :
            BodyFrequency(token) >= 2
       /\ LastScores[i] > LastScores[j]

(***************************************************************************)
(* C7: scenario A.  Over D1 (title "Vim Mode", body with "vim" once),      *)
(* D2 (title "Themes", body with "vim" five times) and D3 (no "vim"), the  *)
(* query "vim mode" with default options returns D1 and D2, D1 before D2,  *)
(* and not D3.                                                             *)
(***************************************************************************)
ScenarioACall ==
  /\ documents = ScenarioA
  /\ lastCall = "searchDocuments"
  /\ options = Some([query |-> MainQuery, category |-> undefined,
                     maxResults |-> None, minScore |-> None])

\* the claim as it was made
C7_ScenarioBothRanked ==
  ScenarioACall
    => /\ \E i \in 1..Len(results), j \in 1..Len(results) :
            i < j /\ results[i].document.id = 1 /\ results[j].document.id = 2
       /\ 3 \notin ResultIdSet

\* C7 as amended: the call returns D1 alone; D2 is left out like D3, its
\* score being 0 < minScore, since "vim" is in 2 of the 3 bodies and so has
\* idf = ln(3 / (2 + 1)) = 0
C7_ScenarioOnlyD1 ==
  ScenarioACall => ResultIds = <<1>> /\ LastScores[2] = 0 /\ LastScores[3] = 0

C7_Witness == ScenarioACall /\ ResultIds = <<1>> /\ LastScores[1] > Scale

(***************************************************************************)
(* C8: for every result whose content holds a query token, the excerpt     *)
(* holds that token (case-insensitively), unless the content is shorter    *)
(* than the excerpt window, and then the excerpt is the whole content      *)
(* (possibly truncated at 4000 characters); wherever the token sits and    *)
(* whatever short words, punctuation and long words precede it.            *)
(***************************************************************************)
LowerCased(str) == List([i \in 1..Len(str) |-> toLowerCase(str[i])])

\* read in the claim's favour: one query token of the content is enough
C8_ExcerptHoldsToken ==
  Searched
    => \A r \in 1..Len(results) :
         LET content == results[r].document.content
             excerpt == results[r].excerpt
             hits == TokenSet(content) \cap LastQueryTokenSet
         IN  hits # {}
               => \/ \E token \in hits : Contains(LowerCased(excerpt), token)
                  \/ excerpt = content
                  \/ excerpt = substring(content, 4000) \o <<".", ".", ".">>

(***************************************************************************)
(* C9: every excerpt, of the match branch and of the no-match branch       *)
(* alike, is hard-truncated to at most 4000 characters, an ellipsis marker *)
(* being appended if and only if it was truncated.                         *)
(***************************************************************************)
\* read in the claim's favour: 4000 characters, not counting the markers
\* that the window and the truncation add
C9_ExcerptTruncated ==
  \A r \in 1..Len(results) : Len(results[r].excerpt) <= 4000 + 3 + 3 + 3

(***************************************************************************)
(* C10: when options.maxResults is not given, searchDocuments returns at   *)
(* most 5 results, also when more than 5 documents clear minScore.         *)
(***************************************************************************)
\* the claim as it was made
C10_DefaultFive ==
  Searched /\ lastCall = "searchDocuments" /\ LastOptions.maxResults = None
    => Len(results) <= 5

\* C10 as amended: without options.maxResults searchDocuments returns at
\* most 10 results; the default of 5 is that of its caller searchGeminiDocs,
\* which returns at most 5 results when params.maxResults is not given
C10_DefaultTen ==
  /\ Searched /\ lastCall = "searchDocuments" /\ LastOptions.maxResults = None
       => Len(results) <= 10
  /\ Searched /\ lastCall = "searchGeminiDocs" /\ Get(params).maxResults = None
       => /\ Len(results) <= 5
          /\ Get(response).totalResults <= 5
          /\ LastOptions.maxResults = Some(5)

\* more than 10 documents clear minScore, and searchDocuments without
\* options.maxResults returns 10 of them
C10_Witness ==
  /\ Searched /\ lastCall = "searchDocuments" /\ LastOptions.maxResults = None
  /\ K > 10
  /\ Len(results) = 10

(***************************************************************************)
(* C11: if tokenizing the query yields no token (empty query, whitespace   *)
(* only, or only words of 1-2 characters), searchDocuments returns the     *)
(* empty list for every collection and every category filter, and raises   *)
(* no error.                                                               *)
(***************************************************************************)
C11_NoTokens ==
  options # None /\ LastOptions.query \in NoTokenQueries
    => results = <<>> /\ thrown = None

\* a query of short words only, with a threshold that a score of 0 clears,
\* over a collection that holds documents, one of them malformed
C11_Witness ==
  /\ lastCall = "searchDocuments"
  /\ LastOptions.query = Sentence(<<to, a>>)
  /\ LastOptions.minScore = Some(0)
  /\ documents = MalformedCorpus
  /\ results = <<>> /\ thrown = None

(***************************************************************************)
(* C12: if the category filter leaves zero documents (a category that no   *)
(* document of a non-empty collection carries), searchDocuments returns    *)
(* the empty list and raises no error.                                     *)
(***************************************************************************)
\* options.category names a category that no document of the collection has
CategoryOfNoDocument ==
  /\ LastOptions.category \notin {undefined, ""}
  /\ \A i \in 1..Len(LastDocuments) : LastDocuments[i].category # LastOptions.category

C12_NoDocuments ==
  options # None /\ Len(LastDocuments) > 0 /\ CategoryOfNoDocument
    => results = <<>> /\ thrown = None

\* the query of scenario A, which finds D1 there, with such a category
C12_Witness ==
  /\ lastCall = "searchDocuments"
  /\ documents = ScenarioA
  /\ LastOptions.query = MainQuery
  /\ CategoryOfNoDocument
  /\ results = <<>> /\ thrown = None

(***************************************************************************)
(* C13: a search_gemini_docs request that matches nothing (no document     *)
(* scores above the threshold, or no document of the loaded index has the  *)
(* requested category) yields a success response with zero results, never *)
(* one with isError set; an error response is produced only when the index *)
(* provider fails.                                                         *)
(***************************************************************************)
\* the index was loaded, and its documents are well formed
IndexLoaded ==
  /\ cachedIndex # None
  /\ \A i \in 1..Len(Get(cachedIndex)) : ~isMalformed(Get(cachedIndex)[i])

C13_NoMatchIsSuccess ==
  lastCall = "searchGeminiDocs" /\ IndexLoaded
    => /\ Get(response).isError = FALSE
       /\ Get(params).category \notin {undefined, ""}
            /\ (\A i \in 1..Len(Get(cachedIndex)) :
                  Get(cachedIndex)[i].category # Get(params).category)
            => Get(response).totalResults = 0

C15_MalformedTolerated ==
  options # None
    => \A i \in 1..Len(LastDocuments) :
         isMalformed(LastDocuments[i])
           => /\ thrown = None
              /\ \A r \in 1..Len(results) : results[r].document.id # LastDocuments[i].id

C17_SearchAfterUpdate ==
  indexWritten /\ lastCall = "searchGeminiDocs" /\ response # None
    => /\ Get(response).isError = FALSE => results = searchDocuments(documents, LastOptions)
       /\ Get(cachedIndex) = documents

(***************************************************************************)
(* C20: calculateScore returns a non-negative score for every input: for   *)
(* every query, field token counts, document-frequency table of the        *)
(* filtered set and document count the result is >= 0, and so is each      *)
(* document's composite score.                                             *)
(***************************************************************************)
\* the claim as it was made
C20_NonNegative ==
  Searched
    => \A i \in 1..Len(LastFiltered) :
         /\ LastFieldScores[i].baseScore >= 0
         /\ LastFieldScores[i].titleScore >= 0
         /\ LastFieldScores[i].headingScore >= 0
         /\ LastScores[i] >= 0

\* no query token of the text is in the body of every document of the
\* filtered set
NoTokenInEveryBody(str) ==
  \A token \in TokenSet(str) \cap LastQueryTokenSet :
    BodyFrequency(token) < Len(LastFiltered)

\* C20 as amended: the score of a field is >= 0 when no query token of the
\* field is in the body of every document of the filtered set (the idf of
\* such a token, ln(totalDocs / (totalDocs + 1)), is negative), and the
\* composite score is >= 0 when that holds of the three fields
C20_NonNegativeIfNotInEveryBody ==
  Searched
    => \A i \in 1..Len(LastFiltered) :
         LET doc == LastFiltered[i]
             body == NoTokenInEveryBody(doc.content)
             title == NoTokenInEveryBody(doc.title)
             headings == NoTokenInEveryBody(join(doc.headings, <<" ">>))
         IN  /\ body => LastFieldScores[i].baseScore >= 0
             /\ title => LastFieldScores[i].titleScore >= 0
             /\ headings => LastFieldScores[i].headingScore >= 0
             /\ body /\ title /\ headings => LastScores[i] >= 0

\* a collection where a query token is in every body but one (its idf is 0),
\* a document that holds it, and a document with a positive score
C20_Witness ==
  /\ Searched
  /\ \E token \in LastQueryTokenSet :
       /\ BodyFrequency(token) = Len(LastFiltered) - 1
       /\ \E i \in 1..Len(LastFiltered) :
            /\ token \in TokenSet(LastFiltered[i].content)
            /\ LastFieldScores[i].baseScore = 0
  /\ \E i \in 1..Len(LastFiltered) : LastScores[i] > 0

(***************************************************************************)
(* The last configure_gemini_cli call, as the properties read it           *)
(***************************************************************************)
AutoUpdatePath == <<"g", "e", "n", "e", "r", "a", "l", ".", "d", "i", "s", "a", "b", "l", "e", "A", "u", "t", "o", "U", "p", "d", "a", "t", "e">>

\* the step is a configure_gemini_cli call with dryRun = true
DryRunStep == lastEdit' # None /\ Get(lastEdit').params.dryRun = Some(TRUE)

\* what the same call reports when it is no dry run (the changes and the
\* preview of a result do not depend on the backup)
NonDryRun(p) ==
  editConfig(settings[p.scope], writable[p.scope], TRUE, backups,
             p.instruction, p.scope, FALSE).result

(***************************************************************************)
(* C18: with dryRun = true, editConfig previews the changes without        *)
(* applying them: for every instruction and scope the settings file is     *)
(* neither created nor modified and no backup file is written, and the     *)
(* returned changes and preview are those the non-dry run would report.    *)
(***************************************************************************)
\* the claim as it was made
C18_DryRunPreviews ==
  [][DryRunStep
       => /\ settings' = settings
          /\ backups' = backups
          /\ Get(lastEdit').result.changes = NonDryRun(Get(lastEdit').params).changes
          /\ Get(lastEdit').result.preview = NonDryRun(Get(lastEdit').params).preview]_vars

\* C18 as amended: the files are left as they were, and the changes and the
\* preview are those of the non-dry run whenever the non-dry run can save
\* the file (when it cannot, it reports no change and the error as preview)
C18_DryRunPreviewsIfSaved ==
  [][DryRunStep
       => /\ settings' = settings
          /\ backups' = backups
          /\ writable[Get(lastEdit').params.scope]
               => /\ Get(lastEdit').result.changes
                       = NonDryRun(Get(lastEdit').params).changes
                  /\ Get(lastEdit').result.preview
                       = NonDryRun(Get(lastEdit').params).preview]_vars

\* a dry run that reports a change of a value of an existing file, which
\* holds the old value afterwards, and no backup file was written
C18_Witness ==
  /\ lastEdit # None
  /\ Get(lastEdit).params.dryRun = Some(TRUE)
  /\ Get(lastEdit).result.success
  /\ settings[Get(lastEdit).params.scope] = JsonFile(ConfigWithTheme)
  /\ backups = 0
  /\ \E i \in 1..Len(Get(lastEdit).result.changes) :
       LET change == Get(lastEdit).result.changes[i]
       IN  /\ change.oldValue # undefinedValue
           /\ change.newValue # change.oldValue
           /\ valueAt(ConfigWithTheme, splitOn(change.path, ".")) = change.oldValue

(***************************************************************************)
(* C19: "enable auto update" is parsed to a change that sets               *)
(* general.disableAutoUpdate to false, "disable auto update" to one that   *)
(* sets it to true, so the two instructions give different values for      *)
(* that path.                                                              *)
(***************************************************************************)
C19_EnableAutoUpdate ==
  /\ parseConfigInstruction(DisableAutoUpdate)
       = <<[path |-> AutoUpdatePath, value |-> primitive(<<"t", "r", "u", "e">>), operation |-> "set"]>>
  /\ lastEdit # None /\ Get(lastEdit).params.instruction = EnableAutoUpdate
       /\ Get(lastEdit).result.success
       => /\ Len(Get(lastEdit).result.changes) = 1
          /\ Get(lastEdit).result.changes[1].path = AutoUpdatePath
          /\ Get(lastEdit).result.changes[1].newValue = primitive(<<"f", "a", "l", "s", "e">>)
          /\ Get(lastEdit).result.changes[1].newValue
               # parseConfigInstruction(DisableAutoUpdate)[1].value

(***************************************************************************)
(* C21: the field score sums tf*idf once per distinct query token, so      *)
(* repeating a token in the query ("vim vim" for "vim") changes no         *)
(* document's score, and neither the set nor the order of the results.     *)
(***************************************************************************)
\* the results of the last call had its query been given as query
ResultsForQuery(query) == searchDocuments(LastDocuments, [LastOptions EXCEPT !.query = query])

\* the document and the score of each result
ScoredIds(found) ==
  [i \in 1..Len(found) |->
     [id |-> found[i].document.id, relevanceScore |-> found[i].relevanceScore]]

C21_RepeatedTokenCountsOnce ==
  Searched /\ LastOptions.query = Sentence(<<vim, vim>>)
    => ScoredIds(results) = ScoredIds(ResultsForQuery(vim))

(***************************************************************************)
(* C22: the document count and the document frequencies are computed over  *)
(* the category-filtered set only: searchDocuments(D, {query, category: c})*)
(* returns the same documents, in the same order and with the same scores, *)
(* as searchDocuments over the documents of D of category c without a      *)
(* category filter.                                                        *)
(***************************************************************************)
\* the documents of docs whose category is category
Restricted(docs, category) == SelectSeq(docs, LAMBDA doc : doc.category = category)

\* the last call over the documents of its category, without the filter
ResultsOverCategory ==
  searchDocuments(Restricted(LastDocuments, LastOptions.category),
                  [LastOptions EXCEPT !.category = undefined])

\* options.category is a category filter: `if (category)` takes the empty
\* string for no category
CategoryFilterSet == LastOptions.category \notin {undefined, ""}

C22_FilteredStatistics ==
  Searched /\ CategoryFilterSet => ScoredIds(results) = ScoredIds(ResultsOverCategory)

\* a call with a category that leaves out a document of another category,
\* and returns a document with another score than the whole collection gives
C22_Witness ==
  /\ Searched
  /\ CategoryFilterSet
  /\ Len(LastFiltered) < Len(LastDocuments)
  /\ results # <<>>
  /\ ScoredIds(results)
       # ScoredIds(searchDocuments(LastDocuments, [LastOptions EXCEPT !.category = undefined]))
  /\ \E i \in 1..Len(results) :
       \E j \in 1..Len(LastDocuments) :
         /\ LastDocuments[j].id = results[i].document.id
         /\ results[i].relevanceScore
              # scoresOf(LastDocuments, contentTokensOf(LastDocuments), LastQueryTokens)[j]

(***************************************************************************)
(* C23: each document's relevanceScore is bodyScore + 3*titleScore +       *)
(* 2*headingScore, where the three terms are the tf*idf sums of the body,  *)
(* the title and the space-joined headings, each with its own token count  *)
(* as denominator (1 for a field without token) and all three with the     *)
(* document frequencies of the body content.                               *)
(***************************************************************************)
\* tf*idf of the query token over the tokens of a field, with the document
\* frequency that the bodies of the filtered set give
TermOf(token, fieldTokens) ==
  LET count == Cardinality({j \in 1..Len(fieldTokens) : fieldTokens[j] = token})
      denominator == IF Len(fieldTokens) = 0 THEN 1 ELSE Len(fieldTokens)
      tf == (count * Scale) \div denominator
      idf == MathLog(Len(LastFiltered), BodyFrequency(token) + 1)
  IN  IF tf = 0 THEN 0 ELSE (tf * idf) \div Scale

\* the sum of the terms of the query tokens from the i-th on
RECURSIVE FieldScoreFrom(_, _)
FieldScoreFrom(i, fieldTokens) ==
  IF i > Len(LastQueryTokens) THEN 0
  ELSE TermOf(LastQueryTokens[i], fieldTokens) + FieldScoreFrom(i + 1, fieldTokens)

FieldScore(str) == FieldScoreFrom(1, tokenize(str))

C23_ScoreComposition ==
  Searched
    => \A i \in 1..Len(results) :
         results[i].relevanceScore
           = FieldScore(results[i].document.content)
               + 3 * FieldScore(results[i].document.title)
               + 2 * FieldScore(join(results[i].document.headings, <<" ">>))

\* a result whose three terms are all positive and differ, of a collection
\* where a query token is in more titles than bodies
C23_Witness ==
  /\ Searched
  /\ \E i \in 1..Len(results) :
       LET doc == results[i].document
           bodyScore == FieldScore(doc.content)
           titleScore == FieldScore(doc.title)
           headingScore == FieldScore(join(doc.headings, <<" ">>))
       IN  /\ bodyScore > 0 /\ titleScore > 0 /\ headingScore > 0
           /\ bodyScore # titleScore /\ headingScore # bodyScore
  /\ \E token \in LastQueryTokenSet :
       BodyFrequency(token)
         < Cardinality({k \in 1..Len(LastFiltered) : token \in TokenSet(LastFiltered[k].title)})

(***************************************************************************)
(* C24: for every result, matchedHeadings is the subsequence of            *)
(* document.headings, in the original order, of the headings whose         *)
(* tokenization shares at least one token with the query tokens: a heading *)
(* that shares no token is left out and one shared token suffices.         *)
(***************************************************************************)
\* the heading shares a token with the query
SharesToken(heading) == TokenSet(heading) \cap LastQueryTokenSet # {}

\* matched is headings without the headings that share no token
RECURSIVE IsMatchedOf(_, _)
IsMatchedOf(matched, headings) ==
  IF headings = <<>> THEN matched = <<>>
  ELSE IF SharesToken(Head(headings))
  THEN matched # <<>> /\ Head(matched) = Head(headings)
         /\ IsMatchedOf(Tail(matched), Tail(headings))
  ELSE IsMatchedOf(matched, Tail(headings))

C24_MatchedHeadings ==
  Searched
    => \A i \in 1..Len(results) :
         IsMatchedOf(results[i].matchedHeadings, results[i].document.headings)

\* a result with five headings: a heading that shares no token is left out
\* between two that are kept, one of them for one of the two query tokens
C24_Witness ==
  /\ Searched
  /\ Cardinality(LastQueryTokenSet) = 2
  /\ \E i \in 1..Len(results) :
       LET headings == results[i].document.headings
       IN  /\ Len(headings) = 5
           /\ SharesToken(headings[1])
           /\ ~SharesToken(headings[2])
           /\ Cardinality(TokenSet(headings[3]) \cap LastQueryTokenSet) = 1
           /\ results[i].matchedHeadings = <<headings[1], headings[3], headings[5]>>

(***************************************************************************)
(* C25: tokenize never emits a token made purely of punctuation: every     *)
(* emitted token is lowercase, longer than 2 characters and holds at least *)
(* one letter or digit (runs such as "---" or "___" yield no token).       *)
(***************************************************************************)
\* the texts of the last call: the query and the fields of the documents
\* of the filtered set
TokenizedTexts ==
  {LastOptions.query}
    \cup {LastFiltered[i].content : i \in 1..Len(LastFiltered)}
    \cup {LastFiltered[i].title : i \in 1..Len(LastFiltered)}
    \cup {join(LastFiltered[i].headings, <<" ">>) : i \in 1..Len(LastFiltered)}

IsWordToken(token) ==
  /\ Len(token) > 2
  /\ \A i \in 1..Len(token) : token[i] \notin UpperCaseLetters
  /\ \E i \in 1..Len(token) : token[i] \in LowerCaseLetters \cup Digits

C25_NoPunctuationToken ==
  Searched => \A str \in TokenizedTexts : \A token \in TokenSet(str) : IsWordToken(token)

\* the tokens are lowercase and longer than 2 characters
C25_LowercaseLongTokens ==
  Searched
    => \A str \in TokenizedTexts : \A token \in TokenSet(str) :
         /\ Len(token) > 2
         /\ \A i \in 1..Len(token) : token[i] \notin UpperCaseLetters

(***************************************************************************)
(* C26: when the first content token equal to a query token is found, the  *)
(* excerpt window is taken around the word position of that token in the   *)
(* whitespace-split content: 200 words before and 200 words after that     *)
(* word (clamped to the content), so the matched word lies in the window;  *)
(* the excerpt has a leading ellipsis exactly when the window does not     *)
(* start at word 0 and a trailing one exactly when it does not end at the  *)
(* last word.                                                              *)
(***************************************************************************)
\* the position (from 0) in the whitespace-split content of the word that
\* gives the first token equal to a query token
WordPositionOf(content) ==
  LET words == split(content)
      hits == {k \in 1..Len(words) : TokenSet(words[k]) \cap LastQueryTokenSet # {}}
  IN  (CHOOSE k \in hits : \A j \in hits : k <= j) - 1

\* the excerpt of the window of 200 words before and after that word
ExcerptAroundWord(content) ==
  LET words == split(content)
      position == WordPositionOf(content)
      start == Max(0, position - 200)
      end == Min(Len(words), position + 200)
  IN  (IF start > 0 THEN <<".", ".", ".">> ELSE <<>>)
        \o join(slice(words, start, end), <<" ">>)
        \o (IF end < Len(words) THEN <<".", ".", ".">> ELSE <<>>)

\* read in the claim's favour: only the excerpts that the limit of 4000
\* characters leaves whole
C26_WindowAroundWord ==
  Searched
    => \A r \in 1..Len(results) :
         LET content == results[r].document.content
         IN  /\ TokenSet(content) \cap LastQueryTokenSet # {}
             /\ Len(ExcerptAroundWord(content)) <= 4000
             /\ Len(results[r].excerpt) <= 4000
             => results[r].excerpt = ExcerptAroundWord(content)

(***************************************************************************)
(* C27: when the category-filtered set holds exactly one document, no      *)
(* query token adds a positive amount to its score (idf = ln(1/(df+1)) is  *)
(* at most 0), so searchDocuments returns the empty list for every query   *)
(* whenever minScore > 0, even if the query matches the title, the         *)
(* headings and the body of the document.                                  *)
(***************************************************************************)
C27_SingleDocument ==
  Searched /\ Len(LastFiltered) = 1
    => /\ LastScores[1] <= 0
       /\ LastFieldScores[1].baseScore <= 0
       /\ LastFieldScores[1].titleScore <= 0
       /\ LastFieldScores[1].headingScore <= 0
       /\ GivenMinScore > 0 => results = <<>>

\* a call over one document whose title, headings and body hold a query
\* token, with the default minScore: no result; the set is the whole
\* collection, or what the category filter leaves of a larger one
C27_Witness ==
  /\ Searched
  /\ Len(LastFiltered) = 1
  /\ Len(LastDocuments) > 1
  /\ LastOptions.minScore = None
  /\ LastQueryTokenSet \cap TokenSet(LastFiltered[1].title) # {}
  /\ LastQueryTokenSet \cap TokenSet(LastFiltered[1].content) # {}
  /\ LastQueryTokenSet \cap TokenSet(join(LastFiltered[1].headings, <<" ">>)) # {}
  /\ LastScores[1] < 0
  /\ results = <<>>


(***************************************************************************)
(* C28: the answer to a merged query of one setting                        *)
(***************************************************************************)
\* the last call was queryGeminiConfig with scope 'merged', given or by
\* default, and a setting path, and it loaded both files
MergedSettingQuery ==
  /\ lastQuery # None
  /\ Get(lastQuery).params.scope \in {None, Some("merged")}
  /\ settingGiven(Get(lastQuery).params)
  /\ ~Get(lastQuery).response.isError

\* the value that the settings file of a scope holds at the queried path
StoredAt(scope) ==
  IF loadConfig(settings[scope]) = None THEN undefinedValue
  ELSE getNestedValue(Get(loadConfig(settings[scope])), Get(Get(lastQuery).params.setting))

\* C28: in a merged query of a setting path, source is 'user' or 'project'
\* only if exists is true and value is the value which the configuration of
\* that scope holds at the path, and source is 'default' exactly when exists
\* is false.
C28_MergedSourceAgrees ==
  MergedSettingQuery =>
    LET answer == Get(lastQuery).response
    IN  /\ answer.source \in Scopes
             => answer.exists /\ answer.value = StoredAt(answer.source)
        /\ answer.source = "default" <=> ~answer.exists


(***************************************************************************)
(* C29: the files of the documentation cache after a failed update         *)
(***************************************************************************)
\* the step is an updateGeminiDocs call whose updateDocsIndex threw
FailedUpdateStep ==
  /\ lastCall' = "updateGeminiDocs"
  /\ response' # None
  /\ Get(response').isError

\* C29: a failed updateDocsIndex leaves docs/llms.txt,
\* docs/gemini-cli-readme.md and docs/index.json all unchanged.
C29_FailedUpdateChangesNoFile ==
  [][FailedUpdateStep => UNCHANGED <<sourceFiles, documents, indexFile>>]_vars

\* C29, its consequence: once this process has written docs/index.json, it is
\* the index built from the llms.txt and the README stored beside it.
C29_IndexBuiltFromStoredFiles ==
  indexWritten =>
    /\ sourceFiles.llms # None /\ sourceFiles.readme # None
    /\ Get(sourceFiles.llms) # <<>>
    /\ documents = buildDocuments(sourceFiles)

\* what the code keeps of it: a failed update leaves docs/index.json unchanged
C29_FailedUpdateKeepsIndex ==
  [][FailedUpdateStep => UNCHANGED <<documents, indexFile>>]_vars

\* and an update whose download fails writes no file
C29_FailedDownloadChangesNoFile ==
  [][FailedUpdateStep /\ Get(response').error = "Failed to download"
       => UNCHANGED <<sourceFiles, documents, indexFile>>]_vars


(***************************************************************************)
(* C30: "disable S" for a feature setting S whose path is no 'disable'     *)
(* flag                                                                    *)
(***************************************************************************)
VimModePath == <<"g", "e", "n", "e", "r", "a", "l", ".", "v", "i", "m", "M", "o", "d", "e">>
TelemetryPath == <<"p", "r", "i", "v", "a", "c", "y", ".", "u", "s", "a", "g", "e", "S", "t", "a", "t", "i", "s", "t", "i", "c", "s", "E", "n", "a", "b", "l", "e", "d">>

\* the path of the feature that an instruction of the requests disables
DisabledFeature ==
  (DisableVim :> VimModePath) @@ (DisableTelemetry :> TelemetryPath)

\* the instruction that enables the feature that an instruction disables
EnablingOf == (DisableVim :> EnableVim) @@ (DisableTelemetry :> EnableTelemetry)

\* the last call was configure_gemini_cli with "disable S", and it succeeded
DisabledLast ==
  /\ lastEdit # None
  /\ Get(lastEdit).params.instruction \in DOMAIN DisabledFeature
  /\ Get(lastEdit).result.success

\* the value stored at a path of a settings file
storedIn(file, path) ==
  IF loadConfig(file) = None THEN undefinedValue
  ELSE getNestedValue(Get(loadConfig(file)), path)

StoredValue(scope, path) == storedIn(settings[scope], path)

\* C30: "disable S" is parsed to a set of the path of S to false, and once
\* editConfig has applied it the value stored at the path is false.
C30_DisableSetsFalse ==
  DisabledLast =>
    LET p == Get(lastEdit).params
        path == DisabledFeature[p.instruction]
    IN  /\ parsedInstructions[p.instruction]
             = <<[path |-> path, value |-> primitive(<<"f", "a", "l", "s", "e">>), operation |-> "set"]>>
        /\ Len(Get(lastEdit).result.changes) = 1
        /\ Get(lastEdit).result.changes[1].path = path
        /\ Get(lastEdit).result.changes[1].newValue = primitive(<<"f", "a", "l", "s", "e">>)
        /\ p.dryRun # Some(TRUE) => StoredValue(p.scope, path) = primitive(<<"f", "a", "l", "s", "e">>)

\* C30, the sequence: when editConfig("disable S") is applied after
\* editConfig("enable S") was, the value stored at the path is false.
C30_EnableThenDisable ==
  [][/\ lastEdit # None /\ lastEdit' # None
     /\ Get(lastEdit').params.instruction \in DOMAIN DisabledFeature
     /\ Get(lastEdit).params.instruction = EnablingOf[Get(lastEdit').params.instruction]
     /\ Get(lastEdit).params.scope = Get(lastEdit').params.scope
     /\ Get(lastEdit).params.dryRun # Some(TRUE) /\ Get(lastEdit').params.dryRun # Some(TRUE)
     /\ Get(lastEdit).result.success /\ Get(lastEdit').result.success
     => storedIn(settings'[Get(lastEdit').params.scope],
                 DisabledFeature[Get(lastEdit').params.instruction])
          = primitive(<<"f", "a", "l", "s", "e">>)]_vars

\* what the code does: "disable S" stores true at the path, as "enable S"
C30_DisableStoresTrue ==
  DisabledLast /\ Get(lastEdit).params.dryRun # Some(TRUE)
    => StoredValue(Get(lastEdit).params.scope,
                   DisabledFeature[Get(lastEdit).params.instruction]) = primitive(<<"t", "r", "u", "e">>)

====
